---- MODULE Spec2Model ----
(***************************************************************************)
(* Travel Tracker: the App component (receipt store, upload pipeline,      *)
(* monthly aggregation, month navigation, guest/remote persistence).       *)
(*                                                                         *)
(* Strings are TLA+ strings; date keys are cut with SubSeq exactly as the  *)
(* code cuts them with substring.  Amounts and allowances are integers     *)
(* (whole currency units); the comparison  total >= allowance * 0.8  is    *)
(* evaluated exactly as  5 * total >= 4 * allowance.                       *)
(***************************************************************************)
EXTENDS Integers, Sequences, FiniteSets, TLC

(***************************************************************************)
(* Bounds                                                                  *)
(***************************************************************************)
MaxLen == 3

MaxBatches == 2

MaxFiles == 2

MaxId == 3

MaxNav == 1

(***************************************************************************)
(* Program constants                                                       *)
(***************************************************************************)
DEFAULT_ALLOWANCE == 6500

(***************************************************************************)
(* String helpers (JavaScript String methods)                              *)
(***************************************************************************)
Min(a, b) == IF a < b THEN a ELSE b

Max(a, b) == IF a > b THEN a ELSE b

CharAt(s, i) == SubSeq(s, i, i)

CharCode(c) ==
  CASE c = "-" -> 45
    [] c = "/" -> 47
    [] c = "0" -> 48
    [] c = "1" -> 49
    [] c = "2" -> 50
    [] c = "3" -> 51
    [] c = "4" -> 52
    [] c = "5" -> 53
    [] c = "6" -> 54
    [] c = "7" -> 55
    [] c = "8" -> 56
    [] c = "9" -> 57
    [] OTHER -> 63

\* s.substring(a, b) for 0 <= a <= b
substring(s, a, b) == SubSeq(s, a + 1, Min(b, Len(s)))

\* s.startsWith(p)
startsWith(s, p) == Len(p) <= Len(s) /\ SubSeq(s, 1, Len(p)) = p

UpperLetters == "ABCDEFGHIJKLMNOPQRSTUVWXYZ"

LowerLetters == "abcdefghijklmnopqrstuvwxyz"

\* 1-based position of the character c in text, 0 when absent
IndexIn(text, c) ==
  IF \E i \in 1..Len(text) : CharAt(text, i) = c
  THEN CHOOSE i \in 1..Len(text) : CharAt(text, i) = c
  ELSE 0

\* s.toLowerCase()
RECURSIVE toLowerCase(_)
toLowerCase(s) ==
  IF s = "" THEN ""
  ELSE LET c == CharAt(s, 1)
           u == IndexIn(UpperLetters, c)
       IN (IF u > 0 THEN CharAt(LowerLetters, u) ELSE c)
            \o toLowerCase(SubSeq(s, 2, Len(s)))

\* s.includes(part)
includes(s, part) ==
  \E k \in 0..(Len(s) - Len(part)) : SubSeq(s, k + 1, k + Len(part)) = part

RECURSIVE localeCompareFrom(_, _, _)
localeCompareFrom(a, b, i) ==
  IF i > Len(a) /\ i > Len(b) THEN 0
  ELSE IF i > Len(a) THEN -1
  ELSE IF i > Len(b) THEN 1
  ELSE IF CharCode(CharAt(a, i)) < CharCode(CharAt(b, i)) THEN -1
  ELSE IF CharCode(CharAt(a, i)) > CharCode(CharAt(b, i)) THEN 1
  ELSE localeCompareFrom(a, b, i + 1)

\* a.localeCompare(b): negative, zero or positive
localeCompare(a, b) == localeCompareFrom(a, b, 1)

(***************************************************************************)
(* Aggregation (the monthlyStats memo)                                     *)
(***************************************************************************)
\* const monthKey = inv.date.substring(0, 7)
monthKeyOf(inv) == substring(inv.date, 0, 7)

\* position of the group of key k in the groups object, 0 when absent
GroupIndex(groups, k) ==
  IF \E i \in 1..Len(groups) : groups[i].month = k
  THEN CHOOSE i \in 1..Len(groups) : groups[i].month = k
  ELSE 0

\* variant: a fresh group is opened for every receipt
EnsureGroupAlwaysNew(groups, k, allowance) ==
  Append(groups, [month |-> k, totalSpent |-> 0, tripCount |-> 0,
                  status |-> "Safe", remainingBudget |-> allowance])

\* if (!groups[monthKey]) groups[monthKey] = { ... }
EnsureGroup(groups, k, allowance) ==
  IF GroupIndex(groups, k) = 0
  THEN Append(groups, [month |-> k, totalSpent |-> 0, tripCount |-> 0,
                       status |-> "Safe", remainingBudget |-> allowance])
  ELSE groups

\* variant: the floor at zero is missing
RemainingBudgetNoFloor(allowance, total) == allowance - total

\* Math.max(0, monthlyAllowance - totalSpent)
RemainingBudget(allowance, total) == Max(0, allowance - total)

\* variant: spending exactly the allowance already counts as over budget
StatusAfterInclusive(prev, total, allowance) ==
  IF total >= allowance THEN "OverBudget"
  ELSE IF 5 * total >= 4 * allowance THEN "Warning"
  ELSE prev

\* the status branch: the status is only ever raised, never reset to Safe
StatusAfter(prev, total, allowance) ==
  IF total > allowance THEN "OverBudget"
  ELSE IF 5 * total >= 4 * allowance THEN "Warning"
  ELSE prev

\* variant: the amount overwrites the running total instead of adding to it
AddToGroupOverwrite(g, inv, allowance) ==
  [month |-> g.month,
   totalSpent |-> inv.amount,
   tripCount |-> g.tripCount + 1,
   status |-> StatusAfter(g.status, inv.amount, allowance),
   remainingBudget |-> RemainingBudget(allowance, inv.amount)]

\* one iteration of invoices.forEach
AddToGroup(g, inv, allowance) ==
  LET total == g.totalSpent + inv.amount
  IN [month |-> g.month,
      totalSpent |-> total,
      tripCount |-> g.tripCount + 1,
      status |-> StatusAfter(g.status, total, allowance),
      remainingBudget |-> RemainingBudget(allowance, total)]

RECURSIVE Accumulate(_, _, _, _)
Accumulate(invs, i, groups, allowance) ==
  IF i > Len(invs) THEN groups
  ELSE LET k  == monthKeyOf(invs[i])
           gs == EnsureGroup(groups, k, allowance)
           j  == GroupIndex(gs, k)
       IN Accumulate(invs, i + 1,
                     [gs EXCEPT ![j] = AddToGroup(gs[j], invs[i], allowance)],
                     allowance)

\* stable insertion of x into a list already sorted descending by month
RECURSIVE InsertByMonthDesc(_, _)
InsertByMonthDesc(x, s) ==
  IF s = <<>> THEN <<x>>
  ELSE IF localeCompare(x.month, s[1].month) > 0 THEN <<x>> \o s
  ELSE <<s[1]>> \o InsertByMonthDesc(x, Tail(s))

\* variant: the groups are returned in insertion order, unsorted
SortByMonthKeepOrder(s) == s

\* Object.values(groups).sort((a, b) => b.month.localeCompare(a.month))
RECURSIVE SortByMonthDesc(_)
SortByMonthDesc(s) ==
  IF s = <<>> THEN <<>>
  ELSE InsertByMonthDesc(s[Len(s)], SortByMonthDesc(SubSeq(s, 1, Len(s) - 1)))

computeMonthlyStats(invs, allowance) ==
  SortByMonthDesc(Accumulate(invs, 1, <<>>, allowance))

(***************************************************************************)
(* State                                                                   *)
(***************************************************************************)
VARIABLES
  invoices,          \* useState<ReceiptData[]>: the in-memory receipt list
  monthlyAllowance,  \* useState(DEFAULT_ALLOWANCE)
  monthlyStats,      \* useMemo over [invoices, monthlyAllowance]
  rendered,          \* TRUE once the component has rendered (memo is current)
  mounted,           \* TRUE once the mount effects have run
  selectedMonthKey,  \* useState: the month being viewed, "YYYY-MM"
  isProcessing,      \* useState(false)
  error,             \* useState<string | null>: the upload error summary
  user,              \* useState<User | null>: NoUser or a uid
  loadingAuth,       \* useState(true)
  localStorage,      \* the browser's localStorage: the three keys the App uses
  subscribed,        \* TRUE while the Firestore onSnapshot listeners are attached
  remote,            \* the Firestore documents of the one account
  batches,           \* the handleUpload calls in flight (their locals)
  nextId,            \* crypto.randomUUID: the first id not yet handed out
  previousSession,   \* history: what localStorage held when the page was loaded
  sortConfig,        \* HistoryTable useState<SortConfig>: {key, direction}
  authModal          \* AuthModal: isOpen and its useState values, the auth call awaited

aggVars == <<invoices, monthlyAllowance, monthlyStats, rendered>>

appVars == <<mounted, selectedMonthKey, isProcessing, error, user, loadingAuth,
             localStorage, subscribed, remote, batches, nextId,
             previousSession, sortConfig, authModal>>

vars == <<invoices, monthlyAllowance, monthlyStats, rendered, mounted,
          selectedMonthKey, isProcessing, error, user, loadingAuth,
          localStorage, subscribed, remote, batches, nextId, previousSession, sortConfig, authModal>>

(***************************************************************************)
(* Input domains                                                           *)
(***************************************************************************)
Dates == {"2024-12-05", "2024-12-20", "2025-01-15"}

Amounts == {-5199, 0, 1, 5199}

AllowanceValues == {-1, 0, 2, DEFAULT_ALLOWANCE}

mkReceipt(id, date, amount) ==
  [id |-> id, date |-> date, time |-> "09:30", amount |-> amount,
   pickupLocation |-> "Home", dropoffLocation |-> "Office"]

\* every receipt list of length n, the receipt at position i carrying id i
ReceiptLists(n) ==
  { [i \in 1..n |-> mkReceipt(i, f[i][1], f[i][2])] :
      f \in [1..n -> Dates \X Amounts] }

(***************************************************************************)
(* Values of the App state                                                 *)
(***************************************************************************)
NoUser == "null"

Uid == "u1"

\* a localStorage entry holding a JSON array: getItem returns null when absent
NoItem == [present |-> FALSE, value |-> <<>>]

\* JSON.stringify(list) stored under a key / JSON.parse of it
Item(list) == [present |-> TRUE, value |-> list]

\* a localStorage entry holding a number as text
NoNumber == [present |-> FALSE, value |-> 0]

\* n.toString() stored under a key / Number(text)
NumberItem(n) == [present |-> TRUE, value |-> n]

EmptyStorage == [invoices |-> NoItem, legacy |-> NoItem, allowance |-> NoNumber]

\* setError(null)
NoError == [kind |-> "null", total |-> 0, successCount |-> 0, names |-> <<>>]

NoReceipt == mkReceipt(0, "", 0)

\* the month of "now" when the page is opened
InitialMonthKey == "2024-12"

EmptyRemote ==
  [expenses |-> {}, userDoc |-> [exists |-> FALSE, monthlyAllowance |-> NoNumber]]

\* HistoryTable: useState<SortConfig>({ key: 'date', direction: 'desc' })
DefaultSort == [key |-> "date", direction |-> "desc"]

\* no auth call is being awaited
NoCall == [kind |-> "none", mode |-> "login"]

\* the AuthModal before it is first opened: useState initial values
ClosedModal ==
  [isOpen |-> FALSE, authMode |-> "login", loading |-> FALSE,
   isResetSuccess |-> FALSE, error |-> "null", call |-> NoCall]

IdleBatch ==
  [pc |-> "idle", files |-> <<>>, results |-> <<>>, firstId |-> 0,
   user |-> NoUser, newInvoices |-> <<>>, errors |-> <<>>, successCount |-> 0,
   writes |-> <<>>, seen |-> <<>>]

(***************************************************************************)
(* Effects: what React runs after a render whose dependencies changed      *)
(***************************************************************************)
\* the values one render closes over, plus the stores the effects touch
RenderState ==
  [invoices |-> invoices, monthlyAllowance |-> monthlyAllowance,
   user |-> user, loadingAuth |-> loadingAuth,
   localStorage |-> localStorage, subscribed |-> subscribed]

AllDeps == {"user", "loadingAuth", "invoices", "monthlyAllowance"}

\* Data Loading effect, deps [user, loadingAuth]: the state updates it requests
loadEffect(s) ==
  IF s.loadingAuth
  THEN [subscribed |-> FALSE, inv |-> NoItem, allow |-> NoNumber]
  ELSE IF s.user # NoUser
  THEN [subscribed |-> TRUE, inv |-> NoItem, allow |-> NoNumber]
  ELSE LET saved == IF s.localStorage.invoices.present
                    THEN s.localStorage.invoices
                    ELSE s.localStorage.legacy
       IN [subscribed |-> FALSE, inv |-> saved,
           allow |-> s.localStorage.allowance]

\* Sync effect, deps [invoices, user]
syncInvoicesEffect(s, ls) ==
  IF s.user = NoUser THEN [ls EXCEPT !.invoices = Item(s.invoices)] ELSE ls

\* Sync effect, deps [monthlyAllowance, user]
syncAllowanceEffect(s, ls) ==
  IF s.user = NoUser
  THEN [ls EXCEPT !.allowance = NumberItem(s.monthlyAllowance)]
  ELSE ls

\* one commit: the effects whose deps changed run in source order, all seeing
\* the values of this render; the state updates they request make the next one
runEffects(s, changed) ==
  LET ld  == IF changed \cap {"user", "loadingAuth"} # {}
             THEN loadEffect(s)
             ELSE [subscribed |-> s.subscribed, inv |-> NoItem,
                   allow |-> NoNumber]
      ls1 == IF changed \cap {"invoices", "user"} # {}
             THEN syncInvoicesEffect(s, s.localStorage)
             ELSE s.localStorage
      ls2 == IF changed \cap {"monthlyAllowance", "user"} # {}
             THEN syncAllowanceEffect(s, ls1)
             ELSE ls1
  IN [state |->
        [invoices |-> IF ld.inv.present THEN ld.inv.value ELSE s.invoices,
         monthlyAllowance |-> IF ld.allow.present THEN ld.allow.value
                              ELSE s.monthlyAllowance,
         user |-> s.user, loadingAuth |-> s.loadingAuth,
         localStorage |-> ls2, subscribed |-> ld.subscribed],
      changed |->
        (IF ld.inv.present THEN {"invoices"} ELSE {})
          \cup (IF ld.allow.present /\ ld.allow.value # s.monthlyAllowance
                THEN {"monthlyAllowance"} ELSE {})]

\* render and commit until no effect requests a further state update
RECURSIVE Commit(_, _)
Commit(s, changed) ==
  IF changed = {} THEN s
  ELSE LET r == runEffects(s, changed) IN Commit(r.state, r.changed)

\* the contents of localStorage after the effects of each render of a commit
RECURSIVE commitWrites(_, _)
commitWrites(s, changed) ==
  IF changed = {} THEN <<>>
  ELSE LET r == runEffects(s, changed)
       IN <<r.state.localStorage>> \o commitWrites(r.state, r.changed)

\* the variables a commit determines, with the memo recomputed by the render
ApplyState(s) ==
  /\ invoices' = s.invoices
  /\ monthlyAllowance' = s.monthlyAllowance
  /\ user' = s.user
  /\ loadingAuth' = s.loadingAuth
  /\ localStorage' = s.localStorage
  /\ subscribed' = s.subscribed
  /\ monthlyStats' = computeMonthlyStats(s.invoices, s.monthlyAllowance)

(***************************************************************************)
(* Start-up                                                                *)
(***************************************************************************)
\* the App after its first render, before any effect has run
InitApp(storage, cloud) ==
  /\ invoices = <<>>
  /\ monthlyAllowance = DEFAULT_ALLOWANCE
  /\ monthlyStats = <<>>
  /\ rendered = TRUE
  /\ mounted = FALSE
  /\ selectedMonthKey = InitialMonthKey
  /\ isProcessing = FALSE
  /\ error = NoError
  /\ user = NoUser
  /\ loadingAuth = TRUE
  /\ localStorage = storage
  /\ subscribed = FALSE
  /\ remote = cloud
  /\ batches = [b \in 1..MaxBatches |-> IdleBatch]
  /\ nextId = 1
  /\ previousSession = storage
  /\ sortConfig = DefaultSort
  /\ authModal = ClosedModal

\* mount: every effect runs once, in source order, on the first render's values
Mount ==
  /\ rendered /\ ~mounted
  /\ mounted' = TRUE
  /\ ApplyState(Commit(RenderState, AllDeps))
  /\ UNCHANGED <<rendered, selectedMonthKey, isProcessing, error, remote,
                 batches, nextId, previousSession, sortConfig, authModal>>

\* onAuthStateChanged callback: first resolution, sign-in or sign-out
AuthResolved(currentUser) ==
  /\ mounted
  /\ loadingAuth \/ currentUser # user
  /\ ApplyState(
       Commit([RenderState EXCEPT !.user = currentUser, !.loadingAuth = FALSE],
              (IF currentUser # user THEN {"user"} ELSE {})
                \cup (IF loadingAuth THEN {"loadingAuth"} ELSE {})))
  /\ UNCHANGED <<rendered, mounted, selectedMonthKey, isProcessing, error,
                 remote, batches, nextId, previousSession, sortConfig, authModal>>

(***************************************************************************)
(* Month navigation                                                        *)
(***************************************************************************)
\* Number(text) of a non-empty run of decimal digits; NaN for anything else
NaN == -1

IsDigits(t) ==
  /\ Len(t) > 0
  /\ \A i \in 1..Len(t) :
       CharCode(CharAt(t, i)) >= 48 /\ CharCode(CharAt(t, i)) <= 57

RECURSIVE DigitsValue(_, _)
DigitsValue(t, acc) ==
  IF Len(t) = 0 THEN acc
  ELSE DigitsValue(SubSeq(t, 2, Len(t)),
                   10 * acc + (CharCode(CharAt(t, 1)) - 48))

Number(t) == IF IsDigits(t) THEN DigitsValue(t, 0) ELSE NaN

\* index of the first "-" of t at or after position i, Len(t) + 1 when none
RECURSIVE DashFrom(_, _)
DashFrom(t, i) ==
  IF i > Len(t) THEN Len(t) + 1
  ELSE IF CharAt(t, i) = "-" THEN i
  ELSE DashFrom(t, i + 1)

\* const [year, month] = key.split('-').map(Number)
splitYearMonth(key) ==
  LET d1 == DashFrom(key, 1)
      d2 == DashFrom(key, d1 + 1)
  IN [year  |-> Number(SubSeq(key, 1, d1 - 1)),
      month |-> IF d1 > Len(key) THEN NaN
                ELSE Number(SubSeq(key, d1 + 1, d2 - 1))]

\* String(n).padStart(2, '0')
padStart2(n) == IF n < 10 THEN "0" \o ToString(n) ELSE ToString(n)

\* new Date(year, monthIndex, 15): the month index overflows into the year
\* (years 0..99 mean 1900..1999), then `${getFullYear()}-${padded month}`
monthKeyOfDate(year, monthIndex) ==
  LET y0     == IF year >= 0 /\ year <= 99 THEN 1900 + year ELSE year
      months == 12 * y0 + monthIndex
  IN ToString(months \div 12) \o "-" \o padStart2((months % 12) + 1)

\* variant: the month index is taken modulo 12 without carrying into the year
navigatedKeyNoCarry(key, direction) ==
  LET ym == splitYearMonth(key)
  IN IF ym.year = NaN \/ ym.month = NaN THEN "NaN-NaN"
     ELSE ToString(ym.year) \o "-"
            \o padStart2(((ym.month - 1 + direction) % 12) + 1)

\* the key navigateMonth(direction) selects
navigatedKey(key, direction) ==
  LET ym == splitYearMonth(key)
  IN IF ym.year = NaN \/ ym.month = NaN THEN "NaN-NaN"
     ELSE monthKeyOfDate(ym.year, ym.month - 1 + direction)

\* months between the start-up month and a key (bounds the navigation)
MonthsFromStart(key) ==
  LET a == splitYearMonth(key)
      b == splitYearMonth(InitialMonthKey)
      d == (12 * a.year + a.month) - (12 * b.year + b.month)
  IN IF d < 0 THEN -d ELSE d

navigateMonth(direction) ==
  /\ mounted
  /\ MonthsFromStart(selectedMonthKey) <= MaxNav
  /\ selectedMonthKey' = navigatedKey(selectedMonthKey, direction)
  /\ UNCHANGED <<invoices, monthlyAllowance, monthlyStats, rendered, mounted,
                 isProcessing, error, user, loadingAuth, localStorage,
                 subscribed, remote, batches, nextId, previousSession, sortConfig, authModal>>

\* onMonthSelect from the chart: the month of one of the bars
selectMonth(key) ==
  /\ mounted
  /\ \E i \in 1..Len(monthlyStats) : monthlyStats[i].month = key
  /\ selectedMonthKey' = key
  /\ UNCHANGED <<invoices, monthlyAllowance, monthlyStats, rendered, mounted,
                 isProcessing, error, user, loadingAuth, localStorage,
                 subscribed, remote, batches, nextId, previousSession, sortConfig, authModal>>

\* stable insertion of x into a list already sorted descending by date
RECURSIVE InsertByDateDesc(_, _)
InsertByDateDesc(x, s) ==
  IF s = <<>> THEN <<x>>
  ELSE IF localeCompare(x.date, s[1].date) > 0 THEN <<x>> \o s
  ELSE <<s[1]>> \o InsertByDateDesc(x, Tail(s))

\* list.sort((a, b) => b.date.localeCompare(a.date))
RECURSIVE SortByDateDesc(_)
SortByDateDesc(s) ==
  IF s = <<>> THEN <<>>
  ELSE InsertByDateDesc(s[Len(s)], SortByDateDesc(SubSeq(s, 1, Len(s) - 1)))

\* variant: nothing is filtered out
filterKeepAll(list, key) == list

\* invoices.filter(inv => inv.date.startsWith(key))
RECURSIVE filterByMonth(_, _)
filterByMonth(list, key) ==
  IF list = <<>> THEN <<>>
  ELSE IF startsWith(list[1].date, key)
       THEN <<list[1]>> \o filterByMonth(Tail(list), key)
       ELSE filterByMonth(Tail(list), key)

\* the selectedMonthInvoices memo
selectedMonthInvoices == SortByDateDesc(filterByMonth(invoices, selectedMonthKey))

\* the "View most recent activity" button, shown when the month is empty
viewMostRecent ==
  /\ mounted
  /\ Len(selectedMonthInvoices) = 0 /\ Len(invoices) > 0
  /\ selectedMonthKey' = substring(invoices[1].date, 0, 7)
  /\ UNCHANGED <<invoices, monthlyAllowance, monthlyStats, rendered, mounted,
                 isProcessing, error, user, loadingAuth, localStorage,
                 subscribed, remote, batches, nextId, previousSession, sortConfig, authModal>>

\* variant: the lookup takes the newest month instead of the selected one
selectedMonthStatsNewest ==
  IF Len(monthlyStats) > 0 THEN monthlyStats[1]
  ELSE [month |-> selectedMonthKey, totalSpent |-> 0, tripCount |-> 0,
        status |-> "Safe", remainingBudget |-> monthlyAllowance]

\* monthlyStats.find(m => m.month === selectedMonthKey) || { ...zero stat }
selectedMonthStats ==
  IF \E i \in 1..Len(monthlyStats) : monthlyStats[i].month = selectedMonthKey
  THEN LET first == CHOOSE i \in 1..Len(monthlyStats) :
                      /\ monthlyStats[i].month = selectedMonthKey
                      /\ \A j \in 1..(i - 1) :
                           monthlyStats[j].month # selectedMonthKey
       IN monthlyStats[first]
  ELSE [month |-> selectedMonthKey, totalSpent |-> 0, tripCount |-> 0,
        status |-> "Safe", remainingBudget |-> monthlyAllowance]

\* DashboardStats: const spent = currentMonthStats?.totalSpent || 0
dashboardSpent == selectedMonthStats.totalSpent

\* DashboardStats: const remaining = Math.max(0, monthlyAllowance - spent)
dashboardRemaining == Max(0, monthlyAllowance - dashboardSpent)

\* DashboardStats: statusText, recomputed from spent and the allowance
dashboardStatusText ==
  IF dashboardSpent > monthlyAllowance THEN "Exceeded Limit"
  ELSE IF 5 * dashboardSpent >= 4 * monthlyAllowance THEN "Approaching Limit"
  ELSE "Within Limit"

\* what the memo leaves in the invoices state: filter returns a new array, so
\* the in-place sort that follows works on the copy
invoicesAfterMonthMemo == invoices

(***************************************************************************)
(* Upload pipeline (handleUpload)                                          *)
(***************************************************************************)
Pending == [status |-> "pending", value |-> NoReceipt]

Rejected == [status |-> "rejected", value |-> NoReceipt]

Fulfilled(r) == [status |-> "fulfilled", value |-> r]

\* the receipt parseReceipt resolves with: { id: crypto.randomUUID(), ...data }
\* (the spread comes last, so an id property of the data replaces the fresh id)
receiptOf(id, data) ==
  [id |-> IF "id" \in data.absent THEN id ELSE data.id,
   date |-> data.date, time |-> data.time, amount |-> data.amount,
   pickupLocation |-> data.pickupLocation,
   dropoffLocation |-> data.dropoffLocation]

\* variant: the continuation runs as soon as one promise has settled
AnySettled(results) ==
  \E i \in 1..Len(results) : results[i].status # "pending"

\* await Promise.allSettled(...): every promise has settled
AllSettled(results) ==
  \A i \in 1..Len(results) : results[i].status # "pending"

\* variant: each fulfilled value is put in front of the ones collected so far
RECURSIVE collectNewLastFirst(_)
collectNewLastFirst(results) ==
  IF results = <<>> THEN <<>>
  ELSE IF results[1].status = "fulfilled"
       THEN collectNewLastFirst(Tail(results)) \o <<results[1].value>>
       ELSE collectNewLastFirst(Tail(results))

\* variant: the loop stops at the first rejected result
RECURSIVE collectNewFailFast(_)
collectNewFailFast(results) ==
  IF results = <<>> THEN <<>>
  ELSE IF results[1].status = "fulfilled"
       THEN <<results[1].value>> \o collectNewFailFast(Tail(results))
       ELSE <<>>

\* results.forEach: the fulfilled values, in file order
RECURSIVE collectNew(_)
collectNew(results) ==
  IF results = <<>> THEN <<>>
  ELSE IF results[1].status = "fulfilled"
       THEN <<results[1].value>> \o collectNew(Tail(results))
       ELSE collectNew(Tail(results))

\* results.forEach: the names of the files whose result is rejected
RECURSIVE collectErrors(_, _)
collectErrors(results, files) ==
  IF results = <<>> THEN <<>>
  ELSE IF results[1].status = "fulfilled"
       THEN collectErrors(Tail(results), Tail(files))
       ELSE <<files[1]>> \o collectErrors(Tail(results), Tail(files))

\* the error summary chosen after the loop (unchanged when nothing failed)
errorSummary(current, files, successCount, errors) ==
  IF Len(errors) > 0
  THEN IF successCount = 0
       THEN [kind |-> "allFailed", total |-> Len(files), successCount |-> 0,
             names |-> <<>>]
       ELSE [kind |-> "partial", total |-> Len(files),
             successCount |-> successCount, names |-> errors]
  ELSE current

UnexpectedError ==
  [kind |-> "unexpected", total |-> 0, successCount |-> 0, names |-> <<>>]

\* if (newInvoices[0].date) setSelectedMonthKey(newInvoices[0].date.substring(0, 7))
monthAfterUpload(current, newInvoices) ==
  IF Len(newInvoices) > 0 /\ newInvoices[1].date # ""
  THEN substring(newInvoices[1].date, 0, 7)
  ELSE current

FreeSlot(b) ==
  /\ batches[b].pc \in {"idle", "done"}
  /\ \A j \in 1..Len(batches[b].writes) : batches[b].writes[j] # "pending"

\* handleUpload up to the await: files come from the input or from a drop.
\* Each parseReceipt call draws its own random id; the model numbers the ids
\* of a batch by file position, starting at firstId. seen is the invoices
\* value of the render whose closure this call of handleUpload runs in; it is
\* gone when the call returns.
StartUpload(b, files) ==
  /\ mounted
  /\ FreeSlot(b)
  /\ \A c \in 1..(b - 1) : ~FreeSlot(c)
  /\ nextId + Len(files) - 1 <= MaxId
  /\ isProcessing' = TRUE
  /\ error' = NoError
  /\ batches' = [batches EXCEPT ![b] =
       [pc |-> "parsing", files |-> files,
        results |-> [i \in 1..Len(files) |-> Pending], firstId |-> nextId,
        user |-> user, newInvoices |-> <<>>, errors |-> <<>>,
        successCount |-> 0, writes |-> <<>>, seen |-> invoices]]
  /\ nextId' = nextId + Len(files)
  /\ UNCHANGED <<invoices, monthlyAllowance, monthlyStats, rendered, mounted,
                 selectedMonthKey, user, loadingAuth, localStorage, subscribed,
                 remote, previousSession, sortConfig, authModal>>

\* parseReceipt(files[i]) resolves with a receipt built from the extracted data
ParseFulfils(b, i, data) ==
  /\ batches[b].pc = "parsing"
  /\ i \in 1..Len(batches[b].files)
  /\ batches[b].results[i].status = "pending"
  /\ batches' = [batches EXCEPT
       ![b].results[i] = Fulfilled(receiptOf(batches[b].firstId + i - 1, data))]
  /\ UNCHANGED <<invoices, monthlyAllowance, monthlyStats, rendered, mounted,
                 selectedMonthKey, isProcessing, error, user, loadingAuth,
                 localStorage, subscribed, remote, nextId, previousSession, sortConfig, authModal>>

\* parseReceipt(files[i]) rejects with a ReceiptError
ParseRejects(b, i) ==
  /\ batches[b].pc = "parsing"
  /\ i \in 1..Len(batches[b].files)
  /\ batches[b].results[i].status = "pending"
  /\ batches' = [batches EXCEPT ![b].results[i] = Rejected]
  /\ UNCHANGED <<invoices, monthlyAllowance, monthlyStats, rendered, mounted,
                 selectedMonthKey, isProcessing, error, user, loadingAuth,
                 localStorage, subscribed, remote, nextId, previousSession, sortConfig, authModal>>

\* variant: the new receipts are put in front of the list the closure saw
\* when the batch started
prependToSeen(prev, newInvoices, seen) == newInvoices \o seen

\* setInvoices(prev => [...newInvoices, ...prev]): the updater gets the state
\* current when it runs, not the invoices of the closure
prependToPrev(prev, newInvoices, seen) == newInvoices \o prev

\* the continuation of Promise.allSettled when the batch was started as guest,
\* or when nothing was extracted: runs to the end of handleUpload
FinishLocal(b) ==
  LET bt   == batches[b]
      new  == collectNew(bt.results)
      errs == collectErrors(bt.results, bt.files)
  IN /\ bt.pc = "parsing"
     /\ AllSettled(bt.results)
     /\ bt.user = NoUser \/ new = <<>>
     /\ batches' = [batches EXCEPT ![b].pc = "done", ![b].newInvoices = new,
                      ![b].errors = errs, ![b].successCount = Len(new),
                      ![b].results = <<>>, ![b].seen = <<>>]
     /\ IF new # <<>>
        THEN ApplyState(Commit([RenderState EXCEPT
                                  !.invoices = prependToPrev(invoices, new, bt.seen)],
                               {"invoices"}))
        ELSE /\ UNCHANGED <<invoices, monthlyAllowance, monthlyStats, user,
                            loadingAuth, localStorage, subscribed>>
     /\ selectedMonthKey' = monthAfterUpload(selectedMonthKey, new)
     /\ error' = errorSummary(error, bt.files, Len(new), errs)
     /\ isProcessing' = FALSE
     /\ UNCHANGED <<rendered, mounted, remote, nextId, previousSession, sortConfig, authModal>>

\* the same continuation when the batch was started signed in: one setDoc per
\* new receipt is issued and handleUpload awaits Promise.all of them
StartSaving(b) ==
  LET bt   == batches[b]
      new  == collectNew(bt.results)
      errs == collectErrors(bt.results, bt.files)
  IN /\ bt.pc = "parsing"
     /\ AllSettled(bt.results)
     /\ bt.user # NoUser /\ new # <<>>
     /\ batches' = [batches EXCEPT ![b].pc = "saving", ![b].newInvoices = new,
                      ![b].errors = errs, ![b].successCount = Len(new),
                      ![b].results = <<>>,
                      ![b].writes = [j \in 1..Len(new) |-> "pending"]]
     /\ UNCHANGED <<invoices, monthlyAllowance, monthlyStats, rendered, mounted,
                    selectedMonthKey, isProcessing, error, user, loadingAuth,
                    localStorage, subscribed, remote, nextId, previousSession, sortConfig, authModal>>

\* one setDoc(doc(db, 'users', uid, 'expenses', inv.id), inv) settles
WriteSettles(b, j, ok) ==
  /\ batches[b].pc \in {"saving", "done"}
  /\ j \in 1..Len(batches[b].writes)
  /\ batches[b].writes[j] = "pending"
  /\ batches' = [batches EXCEPT
       ![b].writes[j] = IF ok THEN "written" ELSE "failed"]
  /\ remote' = IF ok
               THEN [remote EXCEPT !.expenses =
                       { r \in @ : r.id # batches[b].newInvoices[j].id }
                         \cup {batches[b].newInvoices[j]}]
               ELSE remote
  /\ UNCHANGED <<invoices, monthlyAllowance, monthlyStats, rendered, mounted,
                 selectedMonthKey, isProcessing, error, user, loadingAuth,
                 localStorage, subscribed, nextId, previousSession, sortConfig, authModal>>

\* Promise.all resolved: the rest of the try block, then finally
FinishSaved(b) ==
  LET bt == batches[b]
  IN /\ bt.pc = "saving"
     /\ \A j \in 1..Len(bt.writes) : bt.writes[j] = "written"
     /\ batches' = [batches EXCEPT ![b].pc = "done", ![b].seen = <<>>]
     /\ selectedMonthKey' = monthAfterUpload(selectedMonthKey, bt.newInvoices)
     /\ error' = errorSummary(error, bt.files, bt.successCount, bt.errors)
     /\ isProcessing' = FALSE
     /\ UNCHANGED <<invoices, monthlyAllowance, monthlyStats, rendered, mounted,
                    user, loadingAuth, localStorage, subscribed, remote, nextId,
                    previousSession, sortConfig, authModal>>

\* variant: no finally block, the failed write leaves the flag set
FinishFailedNoFinally(b) ==
  LET bt == batches[b]
  IN /\ bt.pc = "saving"
     /\ \E j \in 1..Len(bt.writes) : bt.writes[j] = "failed"
     /\ batches' = [batches EXCEPT ![b].pc = "done", ![b].seen = <<>>]
     /\ error' = UnexpectedError
     /\ UNCHANGED <<invoices, monthlyAllowance, monthlyStats, rendered, mounted,
                    selectedMonthKey, isProcessing, user, loadingAuth,
                    localStorage, subscribed, remote, nextId, previousSession, sortConfig, authModal>>

\* Promise.all rejected (first failed write): catch, then finally
FinishFailed(b) ==
  LET bt == batches[b]
  IN /\ bt.pc = "saving"
     /\ \E j \in 1..Len(bt.writes) : bt.writes[j] = "failed"
     /\ batches' = [batches EXCEPT ![b].pc = "done", ![b].seen = <<>>]
     /\ error' = UnexpectedError
     /\ isProcessing' = FALSE
     /\ UNCHANGED <<invoices, monthlyAllowance, monthlyStats, rendered, mounted,
                    selectedMonthKey, user, loadingAuth, localStorage,
                    subscribed, remote, nextId, previousSession, sortConfig, authModal>>

(***************************************************************************)
(* parseReceipt step by step (services/geminiService.ts)                   *)
(***************************************************************************)
\* 20 * 1024 * 1024: the size above which a file is refused
MaxFileSize == 20 * 1024 * 1024

\* file.size of the files the uploads use, by name
fileSize(name) ==
  IF name = "big.pdf" THEN MaxFileSize + 1
  ELSE IF name = "max.pdf" THEN MaxFileSize
  ELSE 1024

\* new ReceiptError(message)
ReceiptError(message) == [name |-> "ReceiptError", message |-> message]

\* an error thrown by the SDK or by fetch
ProviderError(message) == [name |-> "Error", message |-> message]

\* error.message || error.toString()
messageOrToString(e) ==
  IF e.message # "" THEN e.message ELSE e.name

\* variant: the authentication rule is tried before the rate-limit rule
classifyAuthFirst(msg) ==
  IF includes(msg, "401") \/ includes(msg, "key") \/ includes(msg, "auth")
  THEN "Authentication failed. Please check your API Key configuration."
  ELSE IF includes(msg, "429") \/ includes(msg, "quota")
            \/ includes(msg, "exhausted")
  THEN "Service is busy (Rate Limit Exceeded). Please wait a moment and try again."
  ELSE IF includes(msg, "503") \/ includes(msg, "unavailable")
  THEN "Service temporarily unavailable. Please try again later."
  ELSE IF includes(msg, "fetch") \/ includes(msg, "network")
  THEN "Network error. Please check your internet connection."
  ELSE IF includes(msg, "candidate") \/ includes(msg, "block")
  THEN "The receipt content was flagged or blocked by safety settings."
  ELSE "An unexpected error occurred while processing the receipt."

\* the chain of msg.includes(...) tests of the catch block, in source order
classify(msg) ==
  IF includes(msg, "429") \/ includes(msg, "quota")
       \/ includes(msg, "exhausted")
  THEN "Service is busy (Rate Limit Exceeded). Please wait a moment and try again."
  ELSE IF includes(msg, "401") \/ includes(msg, "key") \/ includes(msg, "auth")
  THEN "Authentication failed. Please check your API Key configuration."
  ELSE IF includes(msg, "503") \/ includes(msg, "unavailable")
  THEN "Service temporarily unavailable. Please try again later."
  ELSE IF includes(msg, "fetch") \/ includes(msg, "network")
  THEN "Network error. Please check your internet connection."
  ELSE IF includes(msg, "candidate") \/ includes(msg, "block")
  THEN "The receipt content was flagged or blocked by safety settings."
  ELSE "An unexpected error occurred while processing the receipt."

\* the catch block of parseReceipt: what it throws for the error it caught
outerCatch(e) ==
  IF e.name = "ReceiptError" THEN e
  ELSE ReceiptError(classify(toLowerCase(messageOrToString(e))))

\* the promise of parseReceipt rejected: the caught error went through the
\* catch block
Caught(e) ==
  [status |-> "rejected", value |-> NoReceipt, reason |-> outerCatch(e).message]

\* a promise that rejected with a ReceiptError raised inside parseReceipt; the
\* reason names its message: "size" (File is too large ...), "read" (Error
\* reading file. / Failed to read file data.), "empty" (The AI model returned
\* an empty response ...), "malformed" (Failed to extract valid receipt data ...)
RejectedFor(reason) == Caught(ReceiptError(reason))

\* the file was read and generateContent has been called: promise still pending
Extracting == [status |-> "pending", value |-> NoReceipt, called |-> TRUE]

\* what generateContent resolves with: the kind of response.text and, for a
\* JSON object, its properties (absent and null ones listed by name)
mkResponse(text, absent, nulls, id, date, amount) ==
  [text |-> text,
   data |-> [absent |-> absent, nulls |-> nulls, id |-> id, date |-> date,
             time |-> "09:30", amount |-> amount, pickupLocation |-> "Home",
             dropoffLocation |-> "Office"]]

\* variant: the response is accepted without validating date and amount
parseResponseUnchecked(uuid, response) ==
  IF response.text = "none" THEN RejectedFor("empty")
  ELSE IF response.text \in {"garbage", "null"} THEN RejectedFor("malformed")
  ELSE Fulfilled(receiptOf(uuid, response.data))

\* parseReceipt from the response on: the promise it settles with
parseResponse(uuid, response) ==
  IF response.text = "none" THEN RejectedFor("empty")
  ELSE IF response.text = "garbage" THEN RejectedFor("malformed")
  ELSE IF response.text = "null" THEN RejectedFor("malformed")
  ELSE LET data == response.data
       IN IF "date" \in (data.absent \cup data.nulls) \/ data.date = ""
          THEN RejectedFor("malformed")
          ELSE IF "amount" \in (data.absent \cup data.nulls)
          THEN RejectedFor("malformed")
          ELSE Fulfilled(receiptOf(uuid, data))

\* variant: no size check, every file is read and sent
ReadFileNoSizeCheck(b, i, readOk) ==
  /\ batches[b].pc = "parsing"
  /\ i \in 1..Len(batches[b].files)
  /\ batches[b].results[i] = Pending
  /\ batches' = [batches EXCEPT ![b].results[i] =
       IF readOk THEN Extracting ELSE RejectedFor("read")]
  /\ UNCHANGED <<invoices, monthlyAllowance, monthlyStats, rendered, mounted,
                 selectedMonthKey, isProcessing, error, user, loadingAuth,
                 localStorage, subscribed, remote, nextId, previousSession,
                 sortConfig, authModal>>

\* fileToGenerativePart(files[i]): the size check, then the FileReader; when
\* it resolves parseReceipt calls generateContent
ReadFile(b, i, readOk) ==
  /\ batches[b].pc = "parsing"
  /\ i \in 1..Len(batches[b].files)
  /\ batches[b].results[i] = Pending
  /\ batches' = [batches EXCEPT ![b].results[i] =
       IF fileSize(batches[b].files[i]) > MaxFileSize THEN RejectedFor("size")
       ELSE IF readOk THEN Extracting
       ELSE RejectedFor("read")]
  /\ UNCHANGED <<invoices, monthlyAllowance, monthlyStats, rendered, mounted,
                 selectedMonthKey, isProcessing, error, user, loadingAuth,
                 localStorage, subscribed, remote, nextId, previousSession,
                 sortConfig, authModal>>

\* generateContent resolves: the response is checked and the promise settles
ServiceResponds(b, i, response) ==
  /\ batches[b].pc = "parsing"
  /\ i \in 1..Len(batches[b].files)
  /\ batches[b].results[i] = Extracting
  /\ batches' = [batches EXCEPT ![b].results[i] =
       parseResponse(batches[b].firstId + i - 1, response)]
  /\ UNCHANGED <<invoices, monthlyAllowance, monthlyStats, rendered, mounted,
                 selectedMonthKey, isProcessing, error, user, loadingAuth,
                 localStorage, subscribed, remote, nextId, previousSession,
                 sortConfig, authModal>>

\* generateContent rejects with the error e (network, quota, auth, safety
\* block): the catch block maps it and the promise of parseReceipt rejects
ServiceThrows(b, i, e) ==
  /\ batches[b].pc = "parsing"
  /\ i \in 1..Len(batches[b].files)
  /\ batches[b].results[i] = Extracting
  /\ batches' = [batches EXCEPT ![b].results[i] = Caught(e)]
  /\ UNCHANGED <<invoices, monthlyAllowance, monthlyStats, rendered, mounted,
                 selectedMonthKey, isProcessing, error, user, loadingAuth,
                 localStorage, subscribed, remote, nextId, previousSession,
                 sortConfig, authModal>>

(***************************************************************************)
(* Delete, allowance, Firestore listeners                                  *)
(***************************************************************************)
\* variant: the list is cut at the first receipt with the id
RECURSIVE withoutIdTruncating(_, _)
withoutIdTruncating(list, id) ==
  IF list = <<>> THEN <<>>
  ELSE IF list[1].id # id
       THEN <<list[1]>> \o withoutIdTruncating(Tail(list), id)
       ELSE <<>>

\* prev.filter(inv => inv.id !== id)
RECURSIVE withoutId(_, _)
withoutId(list, id) ==
  IF list = <<>> THEN <<>>
  ELSE IF list[1].id # id THEN <<list[1]>> \o withoutId(Tail(list), id)
  ELSE withoutId(Tail(list), id)

\* handleDelete(id); ok tells whether deleteDoc succeeds (remote mode only)
handleDelete(id, ok) ==
  /\ mounted
  /\ IF user # NoUser
     THEN /\ remote' = IF ok
                       THEN [remote EXCEPT !.expenses = { r \in @ : r.id # id }]
                       ELSE remote
          /\ UNCHANGED <<invoices, monthlyAllowance, monthlyStats, user,
                         loadingAuth, localStorage, subscribed>>
     ELSE /\ ok
          /\ ApplyState(Commit([RenderState EXCEPT
                                  !.invoices = withoutId(invoices, id)],
                               {"invoices"}))
          /\ UNCHANGED remote
  /\ UNCHANGED <<rendered, mounted, selectedMonthKey, isProcessing, error,
                 batches, nextId, previousSession, sortConfig, authModal>>

\* handleUpdateAllowance(amount), called by the settings form for amount > 0
handleUpdateAllowance(amount) ==
  /\ mounted
  /\ amount > 0
  /\ amount # monthlyAllowance
  /\ IF user # NoUser
     THEN /\ remote' = [remote EXCEPT !.userDoc =
                          [exists |-> TRUE,
                           monthlyAllowance |-> NumberItem(amount)]]
          /\ UNCHANGED <<invoices, monthlyAllowance, monthlyStats, user,
                         loadingAuth, localStorage, subscribed>>
     ELSE /\ ApplyState(Commit([RenderState EXCEPT !.monthlyAllowance = amount],
                               {"monthlyAllowance"}))
          /\ UNCHANGED remote
  /\ UNCHANGED <<rendered, mounted, selectedMonthKey, isProcessing, error,
                 batches, nextId, previousSession, sortConfig, authModal>>

\* snapshot.docs of the expenses collection: documents in id order
RECURSIVE docsOf(_)
docsOf(set) ==
  IF set = {} THEN <<>>
  ELSE LET first == CHOOSE r \in set : \A q \in set : r.id <= q.id
       IN <<first>> \o docsOf(set \ {first})

\* onSnapshot(expensesQuery): setInvoices(fetched)
ExpensesSnapshot ==
  /\ subscribed
  /\ invoices # docsOf(remote.expenses)
  /\ ApplyState(Commit([RenderState EXCEPT !.invoices = docsOf(remote.expenses)],
                       {"invoices"}))
  /\ UNCHANGED <<rendered, mounted, selectedMonthKey, isProcessing, error,
                 remote, batches, nextId, previousSession, sortConfig, authModal>>

\* onSnapshot(userRef): take the allowance, or create the missing document
UserDocSnapshot ==
  /\ subscribed
  /\ IF remote.userDoc.exists
     THEN /\ remote.userDoc.monthlyAllowance.present
          /\ remote.userDoc.monthlyAllowance.value # monthlyAllowance
          /\ ApplyState(Commit([RenderState EXCEPT !.monthlyAllowance =
                                  remote.userDoc.monthlyAllowance.value],
                               {"monthlyAllowance"}))
          /\ UNCHANGED remote
     ELSE /\ remote' = [remote EXCEPT !.userDoc =
                          [exists |-> TRUE,
                           monthlyAllowance |-> NumberItem(DEFAULT_ALLOWANCE)]]
          /\ UNCHANGED <<invoices, monthlyAllowance, monthlyStats, user,
                         loadingAuth, localStorage, subscribed>>
  /\ UNCHANGED <<rendered, mounted, selectedMonthKey, isProcessing, error,
                 batches, nextId, previousSession, sortConfig, authModal>>

(***************************************************************************)
(* HistoryTable: the sort header and the sortedInvoices memo               *)
(***************************************************************************)
\* the UTF-16 code unit of a character (the order the < operator uses)
codeUnit(c) ==
  IF IndexIn(UpperLetters, c) > 0 THEN 64 + IndexIn(UpperLetters, c)
  ELSE IF IndexIn(LowerLetters, c) > 0 THEN 96 + IndexIn(LowerLetters, c)
  ELSE IF c = " " THEN 32
  ELSE CharCode(c)

\* a < b on strings: code units compared left to right, a prefix sorts first
RECURSIVE stringLess(_, _)
stringLess(a, b) ==
  IF b = "" THEN FALSE
  ELSE IF a = "" THEN TRUE
  ELSE IF codeUnit(CharAt(a, 1)) < codeUnit(CharAt(b, 1)) THEN TRUE
  ELSE IF codeUnit(CharAt(a, 1)) > codeUnit(CharAt(b, 1)) THEN FALSE
  ELSE stringLess(SubSeq(a, 2, Len(a)), SubSeq(b, 2, Len(b)))

DaysBeforeMonth == <<0, 31, 59, 90, 120, 151, 181, 212, 243, 273, 304, 334>>

IsLeapYear(y) == (y % 4 = 0 /\ y % 100 # 0) \/ y % 400 = 0

\* days from 0000-01-01 to the given civil date
DayNumber(y, m, d) ==
  365 * y + ((y + 3) \div 4) - ((y + 99) \div 100) + ((y + 399) \div 400)
    + DaysBeforeMonth[m] + (IF m > 2 /\ IsLeapYear(y) THEN 1 ELSE 0) + d - 1

\* new Date(`${date}T${time || '00:00'}`).getTime() of the local date-time,
\* counted in minutes since 1970-01-01T00:00 (the text carries no seconds);
\* NaN when the text is not YYYY-MM-DDTHH:MM
getTime(date, time) ==
  LET t == IF time = "" THEN "00:00" ELSE time
      s == date \o "T" \o t
  IN IF /\ Len(s) = 16
        /\ IsDigits(SubSeq(s, 1, 4)) /\ CharAt(s, 5) = "-"
        /\ IsDigits(SubSeq(s, 6, 7)) /\ CharAt(s, 8) = "-"
        /\ IsDigits(SubSeq(s, 9, 10)) /\ CharAt(s, 11) = "T"
        /\ IsDigits(SubSeq(s, 12, 13)) /\ CharAt(s, 14) = ":"
        /\ IsDigits(SubSeq(s, 15, 16))
        /\ Number(SubSeq(s, 6, 7)) \in 1..12
        /\ Number(SubSeq(s, 9, 10)) \in 1..31
        /\ Number(SubSeq(s, 12, 13)) \in 0..23
        /\ Number(SubSeq(s, 15, 16)) \in 0..59
     THEN ((DayNumber(Number(SubSeq(s, 1, 4)), Number(SubSeq(s, 6, 7)),
                      Number(SubSeq(s, 9, 10))) - DayNumber(1970, 1, 1)) * 24
              + Number(SubSeq(s, 12, 13))) * 60
             + Number(SubSeq(s, 15, 16))
     ELSE NaN

\* x - y on the two time values: NaN when either is NaN, which sort reads as 0
timeDifference(x, y) == IF x = NaN \/ y = NaN THEN 0 ELSE x - y

\* variant: the date key ignores the time of day
compareRowsDateOnly(a, b, cfg) ==
  IF cfg.key = "date"
  THEN LET ta == getTime(a.date, "")
           tb == getTime(b.date, "")
       IN IF cfg.direction = "asc" THEN timeDifference(ta, tb)
          ELSE timeDifference(tb, ta)
  ELSE IF cfg.key = "amount"
  THEN IF cfg.direction = "asc" THEN a.amount - b.amount
       ELSE b.amount - a.amount
  ELSE LET valA == toLowerCase(a.pickupLocation)
           valB == toLowerCase(b.pickupLocation)
       IN IF stringLess(valA, valB)
          THEN (IF cfg.direction = "asc" THEN -1 ELSE 1)
          ELSE IF stringLess(valB, valA)
          THEN (IF cfg.direction = "asc" THEN 1 ELSE -1)
          ELSE 0

\* the comparator handed to sorted.sort: negative, zero or positive
compareRows(a, b, cfg) ==
  IF cfg.key = "date"
  THEN LET ta == getTime(a.date, a.time)
           tb == getTime(b.date, b.time)
       IN IF cfg.direction = "asc" THEN timeDifference(ta, tb)
          ELSE timeDifference(tb, ta)
  ELSE IF cfg.key = "amount"
  THEN IF cfg.direction = "asc" THEN a.amount - b.amount
       ELSE b.amount - a.amount
  ELSE IF cfg.key = "pickupLocation"
  THEN LET valA == toLowerCase(a.pickupLocation)
           valB == toLowerCase(b.pickupLocation)
       IN IF stringLess(valA, valB)
          THEN (IF cfg.direction = "asc" THEN -1 ELSE 1)
          ELSE IF stringLess(valB, valA)
          THEN (IF cfg.direction = "asc" THEN 1 ELSE -1)
          ELSE 0
  ELSE 0

\* stable insertion of x, which follows every row of s in the input
RECURSIVE InsertRow(_, _, _)
InsertRow(x, s, cfg) ==
  IF s = <<>> THEN <<x>>
  ELSE IF compareRows(s[1], x, cfg) > 0 THEN <<x>> \o s
  ELSE <<s[1]>> \o InsertRow(x, Tail(s), cfg)

RECURSIVE reverseRows(_)
reverseRows(s) ==
  IF s = <<>> THEN <<>> ELSE reverseRows(Tail(s)) \o <<s[1]>>

RECURSIVE sortAscending(_, _)
sortAscending(list, cfg) ==
  IF list = <<>> THEN <<>>
  ELSE InsertRow(list[Len(list)],
                 sortAscending(SubSeq(list, 1, Len(list) - 1), cfg), cfg)

\* variant: descending order is produced by reversing the ascending sort
sortRowsByReversal(list, cfg) ==
  IF cfg.direction = "desc"
  THEN reverseRows(sortAscending(list, [cfg EXCEPT !.direction = "asc"]))
  ELSE sortAscending(list, cfg)

\* Array.prototype.sort with compareRows: a stable sort
RECURSIVE sortRows(_, _)
sortRows(list, cfg) ==
  IF list = <<>> THEN <<>>
  ELSE InsertRow(list[Len(list)],
                 sortRows(SubSeq(list, 1, Len(list) - 1), cfg), cfg)

\* the sortedInvoices memo of the table, whose prop is selectedMonthInvoices
sortedInvoices == sortRows(selectedMonthInvoices, sortConfig)

\* what the memo leaves in the prop: [...invoices] copies before sorting
tablePropAfterSort == selectedMonthInvoices

SortKeys == {"date", "amount", "pickupLocation"}

\* variant: a newly chosen key keeps toggling the previous direction
handleSortKeepsToggling(key) ==
  /\ rendered
  /\ sortConfig' =
       [key |-> key,
        direction |-> IF sortConfig.direction = "desc" THEN "asc" ELSE "desc"]
  /\ UNCHANGED <<invoices, monthlyAllowance, monthlyStats, rendered, mounted,
                 selectedMonthKey, isProcessing, error, user, loadingAuth,
                 localStorage, subscribed, remote, batches, nextId,
                 previousSession, authModal>>

\* handleSort(key): a click on a column header
handleSort(key) ==
  /\ rendered
  /\ sortConfig' =
       [key |-> key,
        direction |-> IF sortConfig.key = key /\ sortConfig.direction = "desc"
                      THEN "asc" ELSE "desc"]
  /\ UNCHANGED <<invoices, monthlyAllowance, monthlyStats, rendered, mounted,
                 selectedMonthKey, isProcessing, error, user, loadingAuth,
                 localStorage, subscribed, remote, batches, nextId,
                 previousSession, authModal>>

(***************************************************************************)
(* AuthModal (components/AuthModal.tsx)                                    *)
(***************************************************************************)
\* position of the first occurrence of part in s, 0 when there is none
indexOf(s, part) ==
  IF includes(s, part)
  THEN 1 + CHOOSE k \in 0..(Len(s) - Len(part)) :
             /\ SubSeq(s, k + 1, k + Len(part)) = part
             /\ \A j \in 0..(k - 1) : SubSeq(s, j + 1, j + Len(part)) # part
  ELSE 0

\* err.message.replace('Firebase: ', '')
withoutFirebasePrefix(msg) ==
  LET at == indexOf(msg, "Firebase: ")
  IN IF at = 0 THEN msg
     ELSE SubSeq(msg, 1, at - 1) \o SubSeq(msg, at + 10, Len(msg))

\* setAuthModalOpen(true); the effect on isOpen resets the form, not loading
openAuthModal ==
  /\ ~authModal.isOpen
  /\ authModal' = [authModal EXCEPT !.isOpen = TRUE, !.authMode = "login",
                                    !.error = "null", !.isResetSuccess = FALSE]
  /\ UNCHANGED <<invoices, monthlyAllowance, monthlyStats, rendered, mounted,
                 selectedMonthKey, isProcessing, error, user, loadingAuth,
                 localStorage, subscribed, remote, batches, nextId,
                 previousSession, sortConfig>>

\* onClose: the close button or the Escape key
onClose ==
  /\ authModal.isOpen
  /\ authModal' = [authModal EXCEPT !.isOpen = FALSE]
  /\ UNCHANGED <<invoices, monthlyAllowance, monthlyStats, rendered, mounted,
                 selectedMonthKey, isProcessing, error, user, loadingAuth,
                 localStorage, subscribed, remote, batches, nextId,
                 previousSession, sortConfig>>

\* the links under the form: Forgot Password?, Sign Up, Sign In, Back to Sign In
switchAuthMode(mode) ==
  /\ authModal.isOpen
  /\ ~(authModal.authMode = "reset" /\ authModal.isResetSuccess)
  /\ \/ authModal.authMode = "login" /\ mode \in {"signup", "reset"}
     \/ authModal.authMode \in {"signup", "reset"} /\ mode = "login"
  /\ authModal' = [authModal EXCEPT !.authMode = mode, !.error = "null"]
  /\ UNCHANGED <<invoices, monthlyAllowance, monthlyStats, rendered, mounted,
                 selectedMonthKey, isProcessing, error, user, loadingAuth,
                 localStorage, subscribed, remote, batches, nextId,
                 previousSession, sortConfig>>

\* the Sign In button of the "Check your inbox" view
backToSignIn ==
  /\ authModal.isOpen
  /\ authModal.authMode = "reset" /\ authModal.isResetSuccess
  /\ authModal' = [authModal EXCEPT !.authMode = "login",
                                    !.isResetSuccess = FALSE]
  /\ UNCHANGED <<invoices, monthlyAllowance, monthlyStats, rendered, mounted,
                 selectedMonthKey, isProcessing, error, user, loadingAuth,
                 localStorage, subscribed, remote, batches, nextId,
                 previousSession, sortConfig>>

\* handleSubmit up to its await; the submit button is disabled while loading
handleSubmit ==
  /\ authModal.isOpen
  /\ ~authModal.loading
  /\ ~(authModal.authMode = "reset" /\ authModal.isResetSuccess)
  /\ authModal' = [authModal EXCEPT !.error = "null", !.loading = TRUE,
                     !.call = [kind |-> "submit", mode |-> authModal.authMode]]
  /\ UNCHANGED <<invoices, monthlyAllowance, monthlyStats, rendered, mounted,
                 selectedMonthKey, isProcessing, error, user, loadingAuth,
                 localStorage, subscribed, remote, batches, nextId,
                 previousSession, sortConfig>>

\* handleGoogleSignIn up to its await; the button is shown outside reset mode
handleGoogleSignIn ==
  /\ authModal.isOpen
  /\ ~authModal.loading
  /\ authModal.authMode # "reset"
  /\ authModal' = [authModal EXCEPT !.error = "null", !.loading = TRUE,
                     !.call = [kind |-> "google", mode |-> authModal.authMode]]
  /\ UNCHANGED <<invoices, monthlyAllowance, monthlyStats, rendered, mounted,
                 selectedMonthKey, isProcessing, error, user, loadingAuth,
                 localStorage, subscribed, remote, batches, nextId,
                 previousSession, sortConfig>>

\* catch and finally after the awaited call threw: handleSubmit's finally
\* leaves loading alone when the submit was made in reset mode
afterFailure(am, message) ==
  [am EXCEPT !.error = withoutFirebasePrefix(message),
             !.loading = IF am.call.kind = "submit" /\ am.call.mode = "reset"
                         THEN am.loading ELSE FALSE,
             !.call = NoCall]

\* the awaited call resolved: onClose and the finally block, or for a reset
\* the success view with loading cleared before the return
afterSuccess(am) ==
  IF am.call.kind = "submit" /\ am.call.mode = "reset"
  THEN [am EXCEPT !.isResetSuccess = TRUE, !.loading = FALSE, !.call = NoCall]
  ELSE [am EXCEPT !.isOpen = FALSE, !.loading = FALSE, !.call = NoCall]

\* the auth call (or the missing-configuration throw) settles
AuthCallSettles(ok, message) ==
  /\ authModal.call.kind # "none"
  /\ authModal' = IF ok THEN afterSuccess(authModal)
                  ELSE afterFailure(authModal, message)
  /\ UNCHANGED <<invoices, monthlyAllowance, monthlyStats, rendered, mounted,
                 selectedMonthKey, isProcessing, error, user, loadingAuth,
                 localStorage, subscribed, remote, batches, nextId,
                 previousSession, sortConfig>>

(***************************************************************************)
(* The App: every handler and callback, interleaved                        *)
(***************************************************************************)
FileNames == <<"a.pdf", "b.png", "c.jpg", "d.pdf">>

\* a batch of n files (named by position)
Files(n) == [i \in 1..n |-> FileNames[i]]

mkData(date, amount) ==
  [absent |-> {"id"}, nulls |-> {}, id |-> 0,
   date |-> date, time |-> "09:30", amount |-> amount,
   pickupLocation |-> "Home", dropoffLocation |-> "Office"]

\* what the extraction may return for a file
ExtractData == {mkData("2024-12-05", 5199), mkData("2025-01-15", 1)}

\* allowances the settings form may submit
FormAllowances == {2}

\* an account that already holds one expense and an allowance
SeededRemote ==
  [expenses |-> {mkReceipt(101, "2025-01-15", 1)},
   userDoc |-> [exists |-> TRUE, monthlyAllowance |-> NumberItem(9000)]]

(***************************************************************************)
(* Uploads: guest and signed-in batches, possibly overlapping              *)
(***************************************************************************)
\* the steps of the upload pipeline for the batches in the given slots
UploadSteps(slots) ==
  \/ \E b \in slots, n \in 1..MaxFiles : StartUpload(b, Files(n))
  \/ \E b \in slots, i \in 1..MaxFiles, d \in ExtractData :
       ParseFulfils(b, i, d)
  \/ \E b \in slots, i \in 1..MaxFiles : ParseRejects(b, i)
  \/ \E b \in slots : FinishLocal(b)

\* the steps that follow the extraction when the batch was started signed in
SavingSteps(slots) ==
  \/ \E b \in slots : StartSaving(b)
  \/ \E b \in slots, j \in 1..MaxFiles, ok \in BOOLEAN : WriteSettles(b, j, ok)
  \/ \E b \in slots : FinishSaved(b)
  \/ \E b \in slots : FinishFailed(b)

\* guest mode: batches may overlap (a drop while the input is disabled)
InitUpload == InitApp(EmptyStorage, EmptyRemote)

NextUpload ==
  \/ Mount
  \/ AuthResolved(NoUser)
  \/ UploadSteps(1..MaxBatches)

SpecUpload == InitUpload /\ [][NextUpload]_vars

\* signing in and out around one batch at a time, with the Firestore writes
InitRemote == InitApp(EmptyStorage, EmptyRemote)

NextRemote ==
  \/ Mount
  \/ \E u \in {NoUser, Uid} : AuthResolved(u)
  \/ UploadSteps({1})
  \/ SavingSteps({1})
  \/ ExpensesSnapshot

SpecRemote == InitRemote /\ [][NextRemote]_vars

\* guest mode: the month cursor, with uploads, deletes and allowance changes
InitNav == InitApp(EmptyStorage, EmptyRemote)

NextNav ==
  \/ Mount
  \/ AuthResolved(NoUser)
  \/ \E d \in {-1, 1} : navigateMonth(d)
  \/ \E i \in 1..Len(monthlyStats) : selectMonth(monthlyStats[i].month)
  \/ viewMostRecent
  \/ UploadSteps({1})
  \/ \E id \in 1..(nextId - 1) : handleDelete(id, TRUE)
  \/ \E a \in FormAllowances : handleUpdateAllowance(a)

SpecNav == InitNav /\ [][NextNav]_vars

(***************************************************************************)
(* Aggregation on its own: any receipt list, any allowance, one render     *)
(***************************************************************************)
InitAgg ==
  /\ \E n \in 0..MaxLen : invoices \in ReceiptLists(n)
  /\ monthlyAllowance \in AllowanceValues
  /\ monthlyStats = <<>>
  /\ rendered = FALSE
  /\ mounted = FALSE
  /\ selectedMonthKey = InitialMonthKey
  /\ isProcessing = FALSE
  /\ error = NoError
  /\ user = NoUser
  /\ loadingAuth = TRUE
  /\ localStorage = EmptyStorage
  /\ subscribed = FALSE
  /\ remote = EmptyRemote
  /\ batches = [b \in 1..MaxBatches |-> IdleBatch]
  /\ nextId = 1
  /\ previousSession = EmptyStorage
  /\ sortConfig = DefaultSort
  /\ authModal = ClosedModal

\* first render: the monthlyStats memo is computed from the two inputs
Render ==
  /\ ~rendered
  /\ monthlyStats' = computeMonthlyStats(invoices, monthlyAllowance)
  /\ rendered' = TRUE
  /\ UNCHANGED <<invoices, monthlyAllowance>>
  /\ UNCHANGED appVars

NextAgg == Render

SpecAgg == InitAgg /\ [][NextAgg]_vars

(***************************************************************************)
(* Helpers for the properties                                              *)
(***************************************************************************)
RECURSIVE SumAmounts(_)
SumAmounts(s) == IF s = <<>> THEN 0 ELSE s[1].amount + SumAmounts(Tail(s))

\* the receipts of invs whose date[0:7] is k, in list order
RECURSIVE InMonth(_, _)
InMonth(invs, k) ==
  IF invs = <<>> THEN <<>>
  ELSE IF monthKeyOf(invs[1]) = k THEN <<invs[1]>> \o InMonth(Tail(invs), k)
  ELSE InMonth(Tail(invs), k)

MonthKeys(invs) == { monthKeyOf(invs[i]) : i \in 1..Len(invs) }

NonNegative(invs) == \A i \in 1..Len(invs) : invs[i].amount >= 0

\* the status the data model prescribes for a total and an allowance
StatusOf(total, allowance) ==
  IF total > allowance THEN "OverBudget"
  ELSE IF 5 * total >= 4 * allowance THEN "Warning"
  ELSE "Safe"

(***************************************************************************)
(* Aggregation properties (checked under SpecAgg)                          *)
(***************************************************************************)
\* all orderings of a receipt list
Reorderings(invs) ==
  { [i \in 1..Len(invs) |-> invs[p[i]]] :
      p \in { q \in [1..Len(invs) -> 1..Len(invs)] :
                \A i, j \in 1..Len(invs) : i # j => q[i] # q[j] } }

\* C1: with non-negative amounts, for any allowance (zero and negative
\* included) every MonthlyStat is OverBudget exactly when totalSpent >
\* allowance, Warning exactly when 0.8 * allowance <= totalSpent <= allowance,
\* and Safe otherwise.
C1_StatusClassification ==
  (rendered /\ NonNegative(invoices)) =>
    \A i \in 1..Len(monthlyStats) :
      LET st == monthlyStats[i] IN
        /\ (st.status = "OverBudget") <=> (st.totalSpent > monthlyAllowance)
        /\ (st.status = "Warning") <=>
             (5 * st.totalSpent >= 4 * monthlyAllowance
                /\ st.totalSpent <= monthlyAllowance)
        /\ (st.status = "Safe") <=>
             (5 * st.totalSpent < 4 * monthlyAllowance
                /\ st.totalSpent <= monthlyAllowance)

C1_Witness ==
  /\ rendered /\ NonNegative(invoices)
  /\ \E i, j \in 1..Len(monthlyStats) :
       /\ monthlyStats[i].status = "Warning"
       /\ monthlyStats[i].totalSpent = monthlyAllowance
       /\ monthlyStats[j].status = "OverBudget"

\* C2: for every month key m occurring as date[0:7] of some receipt, the
\* MonthlyStat for m counts exactly the receipts of m and sums exactly their
\* amounts.
C2_CountAndSum ==
  rendered =>
    \A k \in MonthKeys(invoices) :
      \E i \in 1..Len(monthlyStats) :
        /\ monthlyStats[i].month = k
        /\ monthlyStats[i].tripCount = Len(InMonth(invoices, k))
        /\ monthlyStats[i].totalSpent = SumAmounts(InMonth(invoices, k))

C2_Witness ==
  /\ rendered
  /\ Len(monthlyStats) = 2
  /\ \E i \in 1..Len(monthlyStats) :
       monthlyStats[i].tripCount = 2 /\ monthlyStats[i].totalSpent = 5200

\* C5: every MonthlyStat has remainingBudget = max(0, allowance - totalSpent),
\* which is never negative and is 0 whenever totalSpent >= allowance.
C5_RemainingFloor ==
  rendered =>
    \A i \in 1..Len(monthlyStats) :
      LET st == monthlyStats[i] IN
        /\ st.remainingBudget =
             (IF monthlyAllowance - st.totalSpent > 0
              THEN monthlyAllowance - st.totalSpent ELSE 0)
        /\ st.remainingBudget >= 0
        /\ (st.totalSpent >= monthlyAllowance => st.remainingBudget = 0)

C5_Witness ==
  /\ rendered
  /\ \E i, j \in 1..Len(monthlyStats) :
       /\ monthlyStats[i].totalSpent > monthlyAllowance
       /\ monthlyStats[i].remainingBudget = 0
       /\ monthlyStats[j].remainingBudget > 0

\* C6: the output holds exactly one MonthlyStat per distinct date[0:7] key of
\* the receipt list and none for any other month; every MonthlyStat has
\* tripCount >= 1 and no month key appears twice.
C6_Sparse ==
  rendered =>
    /\ { monthlyStats[i].month : i \in 1..Len(monthlyStats) }
         = MonthKeys(invoices)
    /\ \A i, j \in 1..Len(monthlyStats) :
         monthlyStats[i].month = monthlyStats[j].month => i = j
    /\ \A i \in 1..Len(monthlyStats) : monthlyStats[i].tripCount >= 1

C6_Witness ==
  /\ rendered
  /\ Len(invoices) = 3
  /\ Len(monthlyStats) = 2

\* C7: for every receipt list and every permutation of it, with the same
\* allowance, the aggregation yields the same list of MonthlyStat values.
C7_Commutative ==
  rendered =>
    \A perm \in Reorderings(invoices) :
      computeMonthlyStats(perm, monthlyAllowance) = monthlyStats

(***************************************************************************)
(* Page load: what a reload does to the data of a previous session         *)
(***************************************************************************)
\* receipt lists a previous session may have stored (ids apart from new ones)
StoredLists ==
  UNION { { [i \in 1..n |-> mkReceipt(100 + i, f[i][1], f[i][2])] :
              f \in [1..n -> Dates \X {1, 5199}] } : n \in 0..MaxLen }

StoredAllowances == {NoNumber, NumberItem(2), NumberItem(9000)}

StoredSessions ==
  { [invoices |-> i, legacy |-> l, allowance |-> a] :
      i \in {NoItem} \cup { Item(x) : x \in StoredLists },
      l \in {NoItem, Item(<<mkReceipt(100, "2024-12-05", 1)>>)},
      a \in StoredAllowances }

InitBoot == \E storage \in StoredSessions : InitApp(storage, EmptyRemote)

NextBoot ==
  \/ Mount
  \/ \E u \in {NoUser, Uid} : AuthResolved(u)

SpecBoot == InitBoot /\ [][NextBoot]_vars

\* C9: guest-mode receipts (and the allowance) stored under the primary key
\* survive a reload: once the start-up sequence has run, the in-memory list is
\* the list stored before the reload and the stored value was not replaced.
C9_GuestDataSurvivesReload ==
  (mounted /\ ~loadingAuth /\ user = NoUser
     /\ previousSession.invoices.present)
    => /\ invoices = previousSession.invoices.value
       /\ localStorage.invoices = previousSession.invoices
       /\ (previousSession.allowance.present
             => monthlyAllowance = previousSession.allowance.value)

(***************************************************************************)
(* Upload properties                                                       *)
(***************************************************************************)
\* the duplicate-detection key of a receipt
tupleOf(r) ==
  <<r.date, r.time, r.amount, r.pickupLocation, r.dropoffLocation>>

Occurrences(list, x) == Cardinality({ k \in 1..Len(list) : list[k] = x })

\* C3: settle-all. The continuation of a batch runs only when every file has
\* settled; each fulfilled file yields exactly one receipt, each rejected
\* file exactly one error entry naming it, every file falls in exactly one
\* class, and in guest mode every fulfilled receipt is added to the store
\* whatever happened to the other files.
C3_SettleAll ==
  [][\A b \in 1..MaxBatches :
       (batches[b].pc = "parsing" /\ batches'[b].pc # "parsing") =>
         LET bt == batches[b]
             nb == batches'[b]
         IN /\ AllSettled(bt.results)
            /\ Len(nb.newInvoices) + Len(nb.errors) = Len(bt.files)
            /\ \A i \in 1..Len(bt.files) :
                 IF bt.results[i].status = "fulfilled"
                 THEN /\ Occurrences(nb.newInvoices, bt.results[i].value) = 1
                      /\ Occurrences(nb.errors, bt.files[i]) = 0
                      /\ bt.user = NoUser =>
                           Occurrences(invoices', bt.results[i].value) = 1
                 ELSE /\ Occurrences(nb.errors, bt.files[i]) = 1
                      /\ \A k \in 1..Len(invoices') :
                           invoices'[k].id # bt.results[i].value.id
     ]_vars

\* a finished batch whose first file failed and whose second file was added
C3_Witness ==
  \E b \in 1..MaxBatches :
    /\ batches[b].pc = "done"
    /\ batches[b].files = <<"a.pdf", "b.png">>
    /\ batches[b].errors = <<"a.pdf">>
    /\ Len(batches[b].newInvoices) = 1
    /\ Occurrences(invoices, batches[b].newInvoices[1]) = 1
    /\ error.kind = "partial" /\ error.names = <<"a.pdf">>

\* C4: duplicate detection. A candidate whose (date, time, amount, pickup,
\* dropoff) tuple equals that of a stored receipt or of another accepted
\* candidate is not added, so the store never holds two receipts with the
\* same tuple.
C4_NoDuplicateTuples ==
  \A i, j \in 1..Len(invoices) :
    tupleOf(invoices[i]) = tupleOf(invoices[j]) => i = j

\* C10: the batch cannot fail as a whole. However handleUpload ends (all
\* files failed, a Firestore write failed, or success) isProcessing is false
\* again; when every file failed the store and the selected month are
\* unchanged and the all-failed summary is set; a batch whose promises have
\* all settled can always run to its end.
C10_BatchNeverFails ==
  [][\A b \in 1..MaxBatches :
       /\ (batches[b].pc \in {"parsing", "saving"} /\ batches'[b].pc = "done")
            => isProcessing' = FALSE
       /\ (/\ batches[b].pc = "parsing" /\ batches'[b].pc # "parsing"
           /\ \A i \in 1..Len(batches[b].files) :
                batches[b].results[i].status = "rejected")
            => /\ batches'[b].pc = "done"
               /\ invoices' = invoices
               /\ remote' = remote
               /\ selectedMonthKey' = selectedMonthKey
               /\ error'.kind = "allFailed"
               /\ error'.total = Len(batches[b].files)
       /\ (batches[b].pc = "saving"
             /\ \A j \in 1..Len(batches[b].writes) :
                  batches[b].writes[j] # "pending")
            => ENABLED (FinishSaved(b) \/ FinishFailed(b))
     ]_vars

\* a signed-in batch ended by a failed write: flag cleared, summary set
C10_Witness ==
  /\ batches[1].pc = "done"
  /\ batches[1].user = Uid
  /\ \E j \in 1..Len(batches[1].writes) : batches[1].writes[j] = "failed"
  /\ error = UnexpectedError
  /\ isProcessing = FALSE

(***************************************************************************)
(* Navigation properties                                                   *)
(***************************************************************************)
MonthNames ==
  <<"01", "02", "03", "04", "05", "06", "07", "08", "09", "10", "11", "12">>

\* the calendar months of 2023..2026 in order, as zero-padded YYYY-MM keys
CalendarKeys ==
  [i \in 1..48 |->
     ToString(2023 + ((i - 1) \div 12)) \o "-" \o MonthNames[((i - 1) % 12) + 1]]

IsCalendarKey(k) == \E i \in 2..47 : CalendarKeys[i] = k

CalendarIndex(k) == CHOOSE i \in 2..47 : CalendarKeys[i] = k

\* C8: navigateMonth(d), d in {-1, +1}, moves selectedMonthKey exactly one
\* calendar month in direction d and yields a zero-padded YYYY-MM key (from
\* YYYY-12, +1 gives (YYYY+1)-01; from YYYY-01, -1 gives (YYYY-1)-12);
\* receipts and allowance are unchanged by navigation.
C8_NavigateOneMonth ==
  [][\A d \in {-1, 1} :
       (navigateMonth(d) /\ IsCalendarKey(selectedMonthKey)) =>
         /\ selectedMonthKey' = CalendarKeys[CalendarIndex(selectedMonthKey) + d]
         /\ invoices' = invoices
         /\ monthlyAllowance' = monthlyAllowance
     ]_vars

\* the cursor moved across the year boundary with receipts in the store
C8_Witness ==
  /\ selectedMonthKey = "2025-01"
  /\ Len(invoices) > 0
  /\ \A i \in 1..Len(invoices) : monthKeyOf(invoices[i]) = "2024-12"


(***************************************************************************)
(* Properties of the selected-month views                                  *)
(***************************************************************************)
ZeroStat(key, allowance) ==
  [month |-> key, totalSpent |-> 0, tripCount |-> 0, status |-> "Safe",
   remainingBudget |-> allowance]

HasReceipts(key) == \E i \in 1..Len(invoices) : monthKeyOf(invoices[i]) = key

\* C11: selectedMonthStats is the MonthlyStat of selectedMonthKey when that
\* month has receipts, and otherwise the synthetic stat with totalSpent 0,
\* tripCount 0, status Safe and remainingBudget equal to the allowance; an
\* empty month is displayed, never an error.
C11_SelectedMonthStats ==
  mounted =>
    IF HasReceipts(selectedMonthKey)
    THEN /\ selectedMonthStats.month = selectedMonthKey
         /\ \E i \in 1..Len(monthlyStats) : monthlyStats[i] = selectedMonthStats
         /\ selectedMonthStats.tripCount = Len(InMonth(invoices, selectedMonthKey))
    ELSE selectedMonthStats = ZeroStat(selectedMonthKey, monthlyAllowance)

\* an empty month is selected while another month has receipts and the
\* allowance is no longer the default
C11_Witness ==
  /\ mounted
  /\ Len(invoices) > 0
  /\ ~HasReceipts(selectedMonthKey)
  /\ monthlyAllowance # DEFAULT_ALLOWANCE
  /\ selectedMonthStats.remainingBudget = monthlyAllowance

\* C12: selectedMonthInvoices holds exactly the receipts whose date starts
\* with selectedMonthKey, each once and no other, ordered by date descending;
\* computing it leaves the stored list and its order as they were.
C12_SelectedMonthInvoices ==
  LET out == selectedMonthInvoices
  IN /\ \A i \in 1..Len(invoices) :
          Occurrences(out, invoices[i]) =
            (IF SubSeq(invoices[i].date, 1, Len(selectedMonthKey))
                  = selectedMonthKey
             THEN 1 ELSE 0)
     /\ \A k \in 1..Len(out) : \E i \in 1..Len(invoices) : invoices[i] = out[k]
     /\ \A k \in 1..(Len(out) - 1) :
          localeCompare(out[k].date, out[k + 1].date) >= 0
     /\ invoicesAfterMonthMemo = invoices

\* three receipts stored oldest first, one of another month: the view holds
\* the two of the selected month, newest first
C12_Witness ==
  /\ Len(invoices) = 3
  /\ invoices[1].date = "2024-12-05"
  /\ invoices[2].date = "2025-01-15"
  /\ invoices[3].date = "2024-12-20"
  /\ selectedMonthInvoices = <<invoices[3], invoices[1]>>


(***************************************************************************)
(* The history table on its own: a stored list, header clicks              *)
(***************************************************************************)
mkTrip(id, date, time, amount, pickup) ==
  [id |-> id, date |-> date, time |-> time, amount |-> amount,
   pickupLocation |-> pickup, dropoffLocation |-> "Office"]

\* trips of one month with ties on every sort key and a missing time and pickup
TripPool ==
  { mkTrip(1, "2024-12-05", "09:30", 5199, "zebra"),
    mkTrip(2, "2024-12-05", "", 1, "Apple"),
    mkTrip(3, "2024-12-05", "18:05", 1, ""),
    mkTrip(4, "2024-12-20", "09:30", 0, "apple"),
    mkTrip(5, "2024-12-05", "09:30", 5199, "zebra") }

\* the stored lists of n distinct trips
TripLists(n) ==
  { f \in [1..n -> TripPool] : \A i, j \in 1..n : f[i] = f[j] => i = j }

\* a guest session that holds the list after its uploads
InitTable ==
  /\ \E n \in 0..MaxLen : invoices \in TripLists(n)
  /\ monthlyAllowance = DEFAULT_ALLOWANCE
  /\ monthlyStats = computeMonthlyStats(invoices, monthlyAllowance)
  /\ rendered = TRUE
  /\ mounted = TRUE
  /\ selectedMonthKey = InitialMonthKey
  /\ isProcessing = FALSE
  /\ error = NoError
  /\ user = NoUser
  /\ loadingAuth = FALSE
  /\ localStorage = [invoices |-> Item(invoices), legacy |-> NoItem,
                     allowance |-> NumberItem(monthlyAllowance)]
  /\ subscribed = FALSE
  /\ remote = EmptyRemote
  /\ batches = [b \in 1..MaxBatches |-> IdleBatch]
  /\ nextId = 1
  /\ previousSession = EmptyStorage
  /\ sortConfig = DefaultSort
  /\ authModal = ClosedModal

NextTable == \E key \in SortKeys : handleSort(key)

SpecTable == InitTable /\ [][NextTable]_vars

\* the time of day used for ordering: a missing time counts as 00:00
TimeOrMidnight(r) == IF r.time = "" THEN "00:00" ELSE r.time

\* -1, 0 or 1: how the configured key of a compares with that of b
KeyOrder(a, b, key) ==
  IF key = "date"
  THEN IF localeCompare(a.date, b.date) # 0 THEN localeCompare(a.date, b.date)
       ELSE localeCompare(TimeOrMidnight(a), TimeOrMidnight(b))
  ELSE IF key = "amount"
  THEN IF a.amount < b.amount THEN -1 ELSE IF a.amount > b.amount THEN 1 ELSE 0
  ELSE IF stringLess(toLowerCase(a.pickupLocation),
                     toLowerCase(b.pickupLocation)) THEN -1
  ELSE IF stringLess(toLowerCase(b.pickupLocation),
                     toLowerCase(a.pickupLocation)) THEN 1
  ELSE 0

PositionIn(list, x) == CHOOSE k \in 1..Len(list) : list[k] = x

\* C13: for every sort configuration the sorted list is a permutation of the
\* table's input whose consecutive rows are ordered by the configured key in
\* the configured direction (date with time of day, a missing time as 00:00;
\* numeric amount; lower-cased pickup, a missing one as the empty string);
\* the input list is not reordered.
C13_SortedByKey ==
  LET inp == selectedMonthInvoices
      out == sortedInvoices
  IN /\ Len(out) = Len(inp)
     /\ \A i \in 1..Len(inp) : Occurrences(out, inp[i]) = 1
     /\ \A k \in 1..(Len(out) - 1) :
          IF sortConfig.direction = "asc"
          THEN KeyOrder(out[k], out[k + 1], sortConfig.key) <= 0
          ELSE KeyOrder(out[k], out[k + 1], sortConfig.key) >= 0
     /\ tablePropAfterSort = inp

\* pickup ascending: the missing pickup first, then Apple, then zebra, from an
\* input that held them in another order
C13_Witness ==
  /\ sortConfig = [key |-> "pickupLocation", direction |-> "asc"]
  /\ Len(sortedInvoices) = 3
  /\ sortedInvoices[1].pickupLocation = ""
  /\ sortedInvoices[2].pickupLocation = "Apple"
  /\ sortedInvoices[3].pickupLocation = "zebra"
  /\ selectedMonthInvoices[1].pickupLocation = "zebra"

\* C14: a click on the active key flips the direction, a click on another key
\* makes it the active key with direction desc, starting from date/desc; the
\* receipts are unchanged by a click.
C14_SortToggle ==
  [][\A key \in SortKeys :
       handleSort(key) =>
         /\ sortConfig'.key = key
         /\ sortConfig'.direction =
              (IF sortConfig.key # key THEN "desc"
               ELSE IF sortConfig.direction = "desc" THEN "asc" ELSE "desc")
         /\ invoices' = invoices
     ]_vars

\* amount was clicked twice after the start: active key amount, ascending
C14_Witness ==
  /\ sortConfig = [key |-> "amount", direction |-> "asc"]
  /\ Len(invoices) > 1

\* C15: the sort is stable in both directions: two rows whose configured keys
\* are equal keep the relative order they had in the input.
C15_Stable ==
  LET inp == selectedMonthInvoices
      out == sortedInvoices
  IN \A i, j \in 1..Len(out) :
       (i < j /\ KeyOrder(out[i], out[j], sortConfig.key) = 0)
         => PositionIn(inp, out[i]) < PositionIn(inp, out[j])

\* descending by amount: the two trips of amount 1 follow the dearer trip that
\* stood between them, in their input order
C15_Witness ==
  /\ sortConfig = [key |-> "amount", direction |-> "desc"]
  /\ Len(selectedMonthInvoices) = 3
  /\ selectedMonthInvoices[1].amount = 1
  /\ selectedMonthInvoices[2].amount = 5199
  /\ selectedMonthInvoices[3].amount = 1
  /\ sortedInvoices = <<selectedMonthInvoices[2], selectedMonthInvoices[1],
                        selectedMonthInvoices[3]>>


(***************************************************************************)
(* Guest uploads with parseReceipt unfolded: file sizes and responses      *)
(***************************************************************************)
\* errors generateContent may reject with
ProviderErrors ==
  { ProviderError("got status: 429 Too Many Requests"),
    ProviderError("Quota exceeded for this API key"),
    ProviderError("RESOURCE_EXHAUSTED"),
    ProviderError("401 Unauthorized"),
    ProviderError("API Key not valid"),
    ProviderError("Unauthenticated: service unavailable"),
    ProviderError("503 Service Unavailable"),
    ProviderError("UNAVAILABLE: network unreachable"),
    ProviderError("Failed to fetch"),
    ProviderError("NetworkError: request blocked"),
    ProviderError("No candidates returned"),
    ProviderError("Response was BLOCKED"),
    ProviderError("Internal error"),
    ProviderError("") }

SizedFileNames == {"a.pdf", "max.pdf", "big.pdf"}

\* the batches of n files
SizedFiles(n) == [1..n -> SizedFileNames]

\* an id the extraction may put into its JSON
ResponseId == 9

AllFields == {"id", "date", "amount"}

\* what the extraction service may answer
Responses ==
  { mkResponse("none", AllFields, {}, 0, "", 0),
    mkResponse("garbage", AllFields, {}, 0, "", 0),
    mkResponse("null", AllFields, {}, 0, "", 0),
    mkResponse("object", {"id", "date"}, {}, 0, "", 5199),
    mkResponse("object", {"id"}, {}, 0, "", 5199),
    mkResponse("object", {"id", "amount"}, {}, 0, "2024-12-05", 0),
    mkResponse("object", {"id"}, {"amount"}, 0, "2024-12-05", 0),
    mkResponse("object", {"id"}, {}, 0, "2024-12-05", 0),
    mkResponse("object", {}, {}, ResponseId, "2025-01-15", 5199) }

StoredIds == { invoices[k].id : k \in 1..Len(invoices) }

InitParse == InitApp(EmptyStorage, EmptyRemote)

NextParse ==
  \/ Mount
  \/ AuthResolved(NoUser)
  \/ \E n \in 1..MaxFiles : \E files \in SizedFiles(n) : StartUpload(1, files)
  \/ \E i \in 1..MaxFiles, readOk \in BOOLEAN : ReadFile(1, i, readOk)
  \/ \E i \in 1..MaxFiles, response \in Responses :
       ServiceResponds(1, i, response)
  \/ \E i \in 1..MaxFiles : ServiceThrows(1, i, ProviderError("Failed to fetch"))
  \/ FinishLocal(1)
  \/ \E id \in StoredIds : handleDelete(id, TRUE)

SpecParse == InitParse /\ [][NextParse]_vars


\* the response is empty, unparseable, or lacks date or amount
Lacking(r) ==
  \/ r.text # "object"
  \/ "date" \in r.data.absent \/ "date" \in r.data.nulls
  \/ "amount" \in r.data.absent \/ "amount" \in r.data.nulls

\* C16: no receipt is produced from a response that is empty, unparseable or
\* lacks date or amount: the promise of that file rejects; a fulfilled promise
\* carries the date and the amount of its response, and every receipt in the
\* store has a present date.
C16_NoReceiptFromBadResponse ==
  [][/\ \A i \in 1..MaxFiles, r \in Responses :
          ServiceResponds(1, i, r) =>
            LET res == batches'[1].results[i]
            IN /\ Lacking(r) => res.status = "rejected"
               /\ res.status = "fulfilled" =>
                    /\ ~Lacking(r)
                    /\ res.value.date = r.data.date
                    /\ res.value.amount = r.data.amount
     /\ \A k \in 1..Len(invoices') : invoices'[k].date # ""
    ]_vars

\* two files in flight: the first response lacked a field and was refused, the
\* second carried a zero amount and was accepted
C16_Witness ==
  /\ batches[1].pc = "parsing"
  /\ Len(batches[1].results) = 2
  /\ batches[1].results[1] = RejectedFor("malformed")
  /\ batches[1].results[2].status = "fulfilled"
  /\ batches[1].results[2].value.amount = 0

\* C17: a file larger than 20MB is refused with the size error before any
\* call of the extraction service: its promise goes from pending straight to
\* the size rejection, it is never in the extracting stage and never
\* fulfilled, and its name is among the errors when the batch ends.
C17_OversizedFailsFast ==
  [][\A i \in 1..MaxFiles :
       LET bt == batches[1]
           nb == batches'[1]
       IN (/\ bt.pc = "parsing"
           /\ i <= Len(bt.files)
           /\ fileSize(bt.files[i]) > MaxFileSize)
          => /\ i <= Len(nb.results) =>
                  /\ nb.results[i] # Extracting
                  /\ nb.results[i].status # "fulfilled"
                  /\ nb.results[i] # bt.results[i] =>
                       nb.results[i] = RejectedFor("size")
             /\ nb.pc = "done" => Occurrences(nb.errors, bt.files[i]) >= 1
     ]_vars

\* a finished batch of an oversized file and a normal one: the first is the
\* only error, the second was added to the store
C17_Witness ==
  /\ batches[1].pc = "done"
  /\ batches[1].files = <<"big.pdf", "a.pdf">>
  /\ batches[1].errors = <<"big.pdf">>
  /\ Len(batches[1].newInvoices) = 1
  /\ Occurrences(invoices, batches[1].newInvoices[1]) = 1
  /\ error.kind = "partial"

\* C19: receipt ids are unique across the store after any sequence of
\* uploads and deletes, given that every generated id is fresh.
C19_UniqueIds ==
  \A i, j \in 1..Len(invoices) : invoices[i].id = invoices[j].id => i = j


\* C18: persistence happens only after the join: while an extraction call of
\* a batch is still pending, handleUpload does not move on and no receipt of
\* that batch is in the in-memory store or in the remote store.
C18_PersistAfterJoin ==
  [][\A b \in 1..MaxBatches :
       LET bt == batches[b]
       IN (/\ bt.pc = "parsing"
           /\ \E i \in 1..Len(bt.results) : bt.results[i].status = "pending")
          => /\ batches'[b].pc = "parsing"
             /\ \A i \in 1..Len(bt.results) :
                  bt.results[i].status = "fulfilled" =>
                    /\ Occurrences(invoices', bt.results[i].value) = 0
                    /\ bt.results[i].value \notin remote'.expenses
     ]_vars

\* a signed-in batch of two files, one of them failed, whose receipt has been
\* written to the remote store and delivered by the listener
C18_Witness ==
  /\ batches[1].pc = "done"
  /\ batches[1].user = Uid
  /\ Len(batches[1].files) = 2
  /\ Len(batches[1].errors) = 1
  /\ Len(batches[1].newInvoices) = 1
  /\ batches[1].newInvoices[1] \in remote.expenses
  /\ Occurrences(invoices, batches[1].newInvoices[1]) = 1

(***************************************************************************)
(* Deleting, as guest and signed in                                        *)
(***************************************************************************)
InitDelete == InitApp(EmptyStorage, EmptyRemote)

NextDelete ==
  \/ Mount
  \/ \E u \in {NoUser, Uid} : AuthResolved(u)
  \/ UploadSteps({1})
  \/ SavingSteps({1})
  \/ ExpensesSnapshot
  \/ \E id \in 1..(nextId - 1), ok \in BOOLEAN : handleDelete(id, ok)

SpecDelete == InitDelete /\ [][NextDelete]_vars

\* C20: delete affects only its target. As guest, handleDelete(id) removes
\* every receipt with that id and keeps the others in their order (an absent
\* id changes nothing); signed in, a failing delete leaves the receipt list,
\* the allowance, the selected month and the remote store as they were.
C20_DeleteOnlyTarget ==
  [][\A id \in 1..MaxId, ok \in BOOLEAN :
       handleDelete(id, ok) =>
         /\ user = NoUser =>
              /\ invoices' = SelectSeq(invoices, LAMBDA r : r.id # id)
              /\ (\A k \in 1..Len(invoices) : invoices[k].id # id)
                   => invoices' = invoices
         /\ (user # NoUser /\ ~ok) =>
              /\ invoices' = invoices
              /\ remote' = remote
         /\ monthlyAllowance' = monthlyAllowance
         /\ selectedMonthKey' = selectedMonthKey
     ]_vars

\* a guest batch added two receipts and the newer one was deleted: the other
\* is still there
C20_Witness ==
  /\ user = NoUser
  /\ batches[1].pc = "done"
  /\ Len(batches[1].newInvoices) = 2
  /\ invoices = <<batches[1].newInvoices[2]>>

(***************************************************************************)
(* Ordering of the aggregation output                                      *)
(***************************************************************************)
\* C21: the MonthlyStat list is strictly descending by month key: every
\* entry's month is lexicographically greater than the month of the entry
\* that follows it, for every receipt list and allowance.
C21_StrictlyDescending ==
  rendered =>
    \A k \in 1..(Len(monthlyStats) - 1) :
      stringLess(monthlyStats[k + 1].month, monthlyStats[k].month)

\* the older month was stored first, the newer month comes out first
C21_Witness ==
  /\ rendered
  /\ Len(invoices) >= 2
  /\ Len(monthlyStats) >= 2
  /\ stringLess(monthKeyOf(invoices[1]), monthKeyOf(invoices[Len(invoices)]))
  /\ monthlyStats[1].month = monthKeyOf(invoices[Len(invoices)])

(***************************************************************************)
(* Aggregation at the default allowance, with amounts that reach it exactly *)
(***************************************************************************)
ThresholdAmounts == {1, 1300, 5199, 5200}

\* every receipt list of length n over these amounts, ids by position
ThresholdLists(n) ==
  {[i \in 1..n |-> mkReceipt(i, f[i].date, f[i].amount)] :
     f \in [1..n -> [date : Dates, amount : ThresholdAmounts]]}

InitThreshold ==
  /\ \E n \in 0..MaxLen : invoices \in ThresholdLists(n)
  /\ monthlyAllowance = DEFAULT_ALLOWANCE
  /\ monthlyStats = <<>>
  /\ rendered = FALSE
  /\ mounted = FALSE
  /\ selectedMonthKey = InitialMonthKey
  /\ isProcessing = FALSE
  /\ error = NoError
  /\ user = NoUser
  /\ loadingAuth = TRUE
  /\ localStorage = EmptyStorage
  /\ subscribed = FALSE
  /\ remote = EmptyRemote
  /\ batches = [b \in 1..MaxBatches |-> IdleBatch]
  /\ nextId = 1
  /\ previousSession = EmptyStorage
  /\ sortConfig = DefaultSort
  /\ authModal = ClosedModal

NextThreshold == Render

SpecThreshold == InitThreshold /\ [][NextThreshold]_vars

\* C22 (as stated): with allowance 6500 a month whose totalSpent is exactly
\* 6500 is classified Safe, neither OverBudget nor Warning.
C22_ExactAllowanceIsSafe ==
  (rendered /\ monthlyAllowance = DEFAULT_ALLOWANCE) =>
    \A k \in 1..Len(monthlyStats) :
      monthlyStats[k].totalSpent = DEFAULT_ALLOWANCE =>
        monthlyStats[k].status = "Safe"

\* C22 (amended): with allowance 6500 a month whose totalSpent is exactly
\* 6500 is not OverBudget, but it is at least 80% of the allowance and is
\* classified Warning; DashboardStats shows it as Approaching Limit.
C22_ExactAllowanceIsWarning ==
  (rendered /\ monthlyAllowance = DEFAULT_ALLOWANCE) =>
    /\ \A k \in 1..Len(monthlyStats) :
         monthlyStats[k].totalSpent = DEFAULT_ALLOWANCE =>
           monthlyStats[k].status = "Warning"
    /\ dashboardSpent = DEFAULT_ALLOWANCE =>
         dashboardStatusText = "Approaching Limit"

\* the selected month's receipts add up to exactly the allowance
C22_Witness ==
  /\ rendered
  /\ monthlyAllowance = DEFAULT_ALLOWANCE
  /\ selectedMonthStats.totalSpent = DEFAULT_ALLOWANCE
  /\ selectedMonthStats.tripCount >= 2

(***************************************************************************)
(* The selected month: statistics against the list                         *)
(***************************************************************************)
\* what the extraction may return when the date it read is only a year: the
\* response check only asks for a date that is not empty
ShortDateData == {mkData("2024-12-05", 5199), mkData("2024", 1)}

\* guest mode: uploads whose dates are not all of the form YYYY-MM-DD
InitShortDate == InitApp(EmptyStorage, EmptyRemote)

NextShortDate ==
  \/ Mount
  \/ AuthResolved(NoUser)
  \/ \E n \in 1..MaxFiles : StartUpload(1, Files(n))
  \/ \E i \in 1..MaxFiles, d \in ShortDateData : ParseFulfils(1, i, d)
  \/ FinishLocal(1)
  \/ \E i \in 1..Len(monthlyStats) : selectMonth(monthlyStats[i].month)
  \/ \E id \in 1..(nextId - 1) : handleDelete(id, TRUE)

SpecShortDate == InitShortDate /\ [][NextShortDate]_vars

\* C24: in every reachable state the selected month's statistics agree with
\* the selected month's list: tripCount is the number of receipts in
\* selectedMonthInvoices and totalSpent is the sum of their amounts.
C24_StatsAgreeWithList ==
  /\ selectedMonthStats.tripCount = Len(selectedMonthInvoices)
  /\ selectedMonthStats.totalSpent = SumAmounts(selectedMonthInvoices)

(***************************************************************************)
(* Overlapping batches and the processing flag                             *)
(***************************************************************************)
\* C25: isProcessing is true in every state in which at least one upload
\* batch is still in flight, also when a second batch was dropped while a
\* first one was running and the first one finishes before the second.
C25_ProcessingWhileInFlight ==
  (\E b \in 1..MaxBatches : batches[b].pc \in {"parsing", "saving"})
    => isProcessing

(***************************************************************************)
(* A delete while a guest batch is in flight                               *)
(***************************************************************************)
\* C26: no lost update between delete and upload in guest mode. When a guest
\* batch completes, the store is the batch's successful receipts followed by
\* the store as it is at that moment: a receipt deleted while the batch was
\* in flight does not reappear and no other receipt is lost; and a delete
\* that comes while or after a batch runs removes only its target.
C26_NoLostUpdate ==
  [][/\ \A b \in 1..MaxBatches :
          (batches[b].pc = "parsing" /\ batches'[b].pc = "done"
             /\ batches[b].user = NoUser) =>
            /\ \A k \in 1..Len(batches'[b].newInvoices) :
                 Occurrences(invoices', batches'[b].newInvoices[k]) = 1
            /\ \A k \in 1..Len(batches[b].seen) :
                 Occurrences(invoices, batches[b].seen[k]) = 0
                   => Occurrences(invoices', batches[b].seen[k]) = 0
            /\ \A k \in 1..Len(invoices) :
                 Occurrences(invoices', invoices[k]) = 1
            /\ Len(invoices') = Len(batches'[b].newInvoices) + Len(invoices)
     /\ \A id \in 1..MaxId :
          (user = NoUser /\ handleDelete(id, TRUE)) =>
            /\ \A k \in 1..Len(invoices') : invoices'[k].id # id
            /\ \A k \in 1..Len(invoices) :
                 invoices[k].id # id => Occurrences(invoices', invoices[k]) = 1
    ]_vars

\* a receipt that was stored when the batch started has been deleted while
\* the batch is in flight, and the batch has a receipt to add and is about to
\* complete
C26_Witness ==
  \E b \in 1..MaxBatches :
    /\ user = NoUser
    /\ batches[b].pc = "parsing"
    /\ AllSettled(batches[b].results)
    /\ \E i \in 1..Len(batches[b].results) :
         batches[b].results[i].status = "fulfilled"
    /\ Len(batches[b].seen) > 0
    /\ Occurrences(invoices, batches[b].seen[1]) = 0

(***************************************************************************)
(* The outcome of a guest batch and the order of its files                 *)
(***************************************************************************)
\* the positions of the results with the given status, ascending
PositionsWith(results, status) ==
  SelectSeq([i \in 1..Len(results) |-> i],
            LAMBDA i : results[i].status = status)

\* C30: the outcome of a guest batch depends on file order only, whatever
\* the order in which the extraction calls settled: after a batch with at
\* least one success the store is the successful receipts in the order of
\* their files followed by the previous store, the failed file names are
\* listed in file order, and selectedMonthKey is date[0:7] of the first
\* successful file's receipt.
C30_FileOrderOnly ==
  [][\A b \in 1..MaxBatches :
       LET bt  == batches[b]
           ok  == PositionsWith(bt.results, "fulfilled")
           bad == PositionsWith(bt.results, "rejected")
       IN (bt.pc = "parsing" /\ batches'[b].pc = "done"
             /\ bt.user = NoUser /\ Len(ok) > 0) =>
            /\ invoices' = [k \in 1..Len(ok) |-> bt.results[ok[k]].value]
                              \o invoices
            /\ batches'[b].errors = [k \in 1..Len(bad) |-> bt.files[bad[k]]]
            /\ Len(bad) > 0 => error'.names = batches'[b].errors
            /\ bt.results[ok[1]].value.date # "" =>
                 selectedMonthKey' = SubSeq(bt.results[ok[1]].value.date, 1, 7)
     ]_vars

\* a finished guest batch of two files with different months: both receipts
\* are in front of the receipt stored before, in file order, and the cursor
\* is on the month of the first file
C30_Witness ==
  \E b \in 1..MaxBatches :
    /\ batches[b].pc = "done"
    /\ batches[b].user = NoUser
    /\ Len(batches[b].newInvoices) = 2
    /\ batches[b].newInvoices[1].date # batches[b].newInvoices[2].date
    /\ Len(invoices) = 3
    /\ SubSeq(invoices, 1, 2) = batches[b].newInvoices
    /\ invoices[1].id < invoices[2].id
    /\ selectedMonthKey = SubSeq(invoices[1].date, 1, 7)

(***************************************************************************)
(* DashboardStats against the statistics it is given                       *)
(***************************************************************************)
\* the status DashboardStats' text stands for
StatusShown(text) ==
  CASE text = "Exceeded Limit" -> "OverBudget"
    [] text = "Approaching Limit" -> "Warning"
    [] OTHER -> "Safe"

\* C28: in every reachable state the status and the remaining amount that
\* DashboardStats recomputes from the selected month's totalSpent and the
\* allowance equal the status and remainingBudget carried by
\* selectedMonthStats, for any stored amounts and any allowance.
C28_DashboardAgrees ==
  rendered =>
    /\ StatusShown(dashboardStatusText) = selectedMonthStats.status
    /\ dashboardRemaining = selectedMonthStats.remainingBudget

(***************************************************************************)
(* parseReceipt: what a failure is turned into                             *)
(***************************************************************************)
\* one batch at a time whose extraction calls fail in every way
InitErrors == InitApp(EmptyStorage, EmptyRemote)

NextErrors ==
  \/ Mount
  \/ \E n \in 1..MaxFiles : \E files \in SizedFiles(n) : StartUpload(1, files)
  \/ \E i \in 1..MaxFiles, readOk \in BOOLEAN : ReadFile(1, i, readOk)
  \/ \E i \in 1..MaxFiles :
       ServiceResponds(1, i, mkResponse("none", AllFields, {}, 0, "", 0))
  \/ \E i \in 1..MaxFiles :
       ServiceResponds(1, i, mkResponse("object", {"id"}, {}, 0, "", 5199))
  \/ \E i \in 1..MaxFiles, e \in ProviderErrors : ServiceThrows(1, i, e)
  \/ FinishLocal(1)

SpecErrors == InitErrors /\ [][NextErrors]_vars

\* the message each provider error has to end as, rule by rule
ExpectedMessage(e) ==
  CASE e.message \in {"got status: 429 Too Many Requests",
                      "Quota exceeded for this API key",
                      "RESOURCE_EXHAUSTED"}
         -> "Service is busy (Rate Limit Exceeded). Please wait a moment and try again."
    [] e.message \in {"401 Unauthorized", "API Key not valid",
                      "Unauthenticated: service unavailable"}
         -> "Authentication failed. Please check your API Key configuration."
    [] e.message \in {"503 Service Unavailable",
                      "UNAVAILABLE: network unreachable"}
         -> "Service temporarily unavailable. Please try again later."
    [] e.message \in {"Failed to fetch", "NetworkError: request blocked"}
         -> "Network error. Please check your internet connection."
    [] e.message \in {"No candidates returned", "Response was BLOCKED"}
         -> "The receipt content was flagged or blocked by safety settings."
    [] OTHER -> "An unexpected error occurred while processing the receipt."

\* the messages a ReceiptError raised inside parseReceipt carries
InnerReasons == {"size", "read", "empty", "malformed"}

\* the rejection parseReceipt ends with for each provider error
RejectionOf == [e \in ProviderErrors |-> Caught(e)]

\* C23: every failure of parseReceipt is a ReceiptError with one fixed
\* message, never the provider's raw error: a ReceiptError raised inside
\* (oversize, read, empty or malformed response) passes through unchanged,
\* any other error is classified by the first matching rule in the order
\* rate limit, authentication, unavailable, network, content blocked, else
\* unknown; and a failed call is not retried: its result stays as it is
\* until the batch ends.
C23_FailuresClassified ==
  [][\A i \in 1..MaxFiles :
       LET old == IF i <= Len(batches[1].results)
                  THEN batches[1].results[i] ELSE Pending
           new == IF i <= Len(batches'[1].results)
                  THEN batches'[1].results[i] ELSE Pending
       IN /\ (old = Extracting /\ new.status = "rejected"
                /\ new.reason \notin InnerReasons) =>
               /\ \E e \in ProviderErrors : new = RejectionOf[e]
               /\ \A e \in ProviderErrors :
                    new = RejectionOf[e] =>
                      /\ new.reason = ExpectedMessage(e)
                      /\ new.reason # e.message
          /\ (old = Extracting /\ new # old) =>
               (new.status = "fulfilled"
                  \/ (new.status = "rejected"
                        /\ new.reason \in InnerReasons
                                           \cup {ExpectedMessage(e) : e \in ProviderErrors}))
          /\ (\E readOk \in BOOLEAN : ReadFile(1, i, readOk)) =>
               (new = Extracting
                  \/ (new.status = "rejected" /\ new.reason \in {"size", "read"}))
          /\ (\E r \in Responses : ServiceResponds(1, i, r)) =>
               (new.status = "fulfilled"
                  \/ (new.status = "rejected"
                        /\ new.reason \in {"empty", "malformed"}))
          /\ (old.status = "rejected" /\ batches'[1].pc = "parsing") =>
               new = old
     ]_vars

\* a message that names both a quota and a key ended as the rate-limit
\* message, one whose upper-case text names a block as the safety message,
\* and an oversized file kept its own error
C23_Witness ==
  /\ batches[1].pc = "parsing"
  /\ Len(batches[1].results) = 2
  /\ batches[1].files[1] = "big.pdf"
  /\ batches[1].results[1].status = "rejected"
  /\ batches[1].results[1].reason = "size"
  /\ batches[1].results[2] = Caught(ProviderError("Quota exceeded for this API key"))
  /\ batches[1].results[2].reason
       = "Service is busy (Rate Limit Exceeded). Please wait a moment and try again."

(***************************************************************************)
(* Signing out: what the sync effect writes                                *)
(***************************************************************************)
\* C27: local-storage sync is guest-only. Receipts obtained from the remote
\* store while a user is signed in are never written to the guest receipts
\* key: not in any state, and not by the effects of any of the renders in
\* which the user signs out and the guest data is loaded again.
C27_GuestKeyGuestOnly ==
  [][/\ \A k \in 1..Len(localStorage'.invoices.value) :
          localStorage'.invoices.value[k] \notin remote'.expenses
     /\ (user # NoUser /\ AuthResolved(NoUser)) =>
          LET writes == commitWrites([RenderState EXCEPT !.user = NoUser,
                                                         !.loadingAuth = FALSE],
                                     {"user"})
          IN \A w \in 1..Len(writes) :
               \A k \in 1..Len(writes[w].invoices.value) :
                 writes[w].invoices.value[k] \notin remote.expenses
    ]_vars

(***************************************************************************)
(* The auth modal                                                          *)
(***************************************************************************)
\* messages the auth call may fail with
AuthFailures ==
  {"Firebase: Error (auth/invalid-credential).",
   "Firebase configuration is missing."}

InitModal == InitApp(EmptyStorage, EmptyRemote)

NextModal ==
  \/ Mount
  \/ openAuthModal
  \/ onClose
  \/ \E mode \in {"login", "signup", "reset"} : switchAuthMode(mode)
  \/ backToSignIn
  \/ handleSubmit
  \/ handleGoogleSignIn
  \/ \E message \in AuthFailures : AuthCallSettles(FALSE, message)
  \/ AuthCallSettles(TRUE, "")

SpecModal == InitModal /\ [][NextModal]_vars

\* C29: in the auth modal, once the auth call of a submit (login, signup or
\* password reset) or of a Google sign-in has settled, whether it succeeded
\* or failed, loading is false again (the submit button is enabled); this
\* also holds after the modal was closed and opened again.
C29_LoadingClearedAfterSettle ==
  authModal.call.kind = "none" => ~authModal.loading

====
